---- MODULE Spec2Model ----
(***************************************************************************)
(* Heap page pruning and (P)HOT chain management                           *)
(* (src/backend/access/heap/pruneheap.c, src/include/storage/itemid.h).    *)
(*                                                                         *)
(* One heap page: an array of line pointers, the tuples they address, and  *)
(* the redirect payloads written into reclaimed tuple storage.  Row        *)
(* updates append versions to a chain; heap_page_prune scans the page,     *)
(* plans line-pointer transitions chain by chain (heap_prune_chain) and    *)
(* applies them in heap_page_prune_execute.                                *)
(***************************************************************************)
EXTENDS Integers, Sequences, FiniteSets, TLC

\* ------------------------------------------------------------------ bounds
\* Line pointers a page can hold (stands for MaxHeapTuplesPerPage).
MaxOff == 4
\* Transaction ids handed out (xid 1 inserted the first row) in the runs where
\* a transaction may abort and a pass may run beside it or with a stale horizon.
MaxXid == 4
\* Further transaction ids in the runs where every transaction commits and
\* each pass starts with no transaction running and an up-to-date horizon.
MoreXids == 3
\* Number of attributes of the relation (RelationGetNumberOfAttributes).
Natts == 3

\* --------------------------------------------------------------- constants
FirstLowInvalidHeapAttributeNumber == -7
InvalidOffsetNumber == 0
FirstOffsetNumber == 1
InvalidTransactionId == 0
RLP_PHOT == 0
\* sizeof(RedirectHeaderData): one uint16 holding rlp_type:4 and rlp_len:12
SizeofRedirectHeaderData == 2

MaxHeapTuplesPerPage == MaxOff
Offs == 1 .. MaxOff
Xids == 1 .. (MaxXid + MoreXids)
Cols == 1 .. Natts
Vals == {0, 1}
\* Columns that carry an index of their own; the remaining columns are not
\* referenced by any index.
IndexedCols == {c \in Cols : c <= 2}

\* lp_flags
LP_UNUSED == "LP_UNUSED"
LP_NORMAL == "LP_NORMAL"
LP_REDIRECT == "LP_REDIRECT"
LP_DEAD == "LP_DEAD"

\* HTSV_Result
HEAPTUPLE_DEAD == "HEAPTUPLE_DEAD"
HEAPTUPLE_LIVE == "HEAPTUPLE_LIVE"
HEAPTUPLE_RECENTLY_DEAD == "HEAPTUPLE_RECENTLY_DEAD"
HEAPTUPLE_INSERT_IN_PROGRESS == "HEAPTUPLE_INSERT_IN_PROGRESS"
HEAPTUPLE_DELETE_IN_PROGRESS == "HEAPTUPLE_DELETE_IN_PROGRESS"
HTSV_Result ==
    {HEAPTUPLE_DEAD, HEAPTUPLE_LIVE, HEAPTUPLE_RECENTLY_DEAD,
     HEAPTUPLE_INSERT_IN_PROGRESS, HEAPTUPLE_DELETE_IN_PROGRESS}
\* Any value that is none of the five: what the default branch of the switch
\* in heap_prune_chain is there for.
HEAPTUPLE_UNEXPECTED == "HEAPTUPLE_UNEXPECTED"

VARIABLES
    lp,             \* line pointer array: offnum -> [flags, off, len]
    tup,            \* tuple header and attribute values stored for a slot
    pay,            \* redirect payload written into a slot's old storage
    maxoff,         \* PageGetMaxOffsetNumber
    pd_prune_xid,   \* page header prune hint
    pd_full,        \* PD_PAGE_FULL
    xstatus,        \* commit log: xid -> status
    nextXid,        \* next transaction id to hand out
    horizon,        \* removable horizon of the visibility test
    pc,             \* position inside heap_page_prune / heap_prune_chain
    pr,             \* PruneState
    ch,             \* locals of heap_prune_chain
    hist,           \* observations of the running pass
    codec,          \* a payload being stored and read back on its own
    buf,            \* buffer content lock and position in heap_page_prune_opt
    root_offsets,   \* result of the last call of heap_get_root_tuples
    pgstat          \* update counters of a table of the regression scripts

page == <<lp, tup, pay, maxoff, pd_prune_xid, pd_full>>
vars == <<lp, tup, pay, maxoff, pd_prune_xid, pd_full, xstatus, nextXid,
          horizon, pc, pr, ch, hist, codec, buf, root_offsets, pgstat>>
\* what the operations that are modelled apart from the pass work on
apart == <<codec, buf, root_offsets, pgstat>>

\* ------------------------------------------------------------- itemid.h
\* Page offset of the storage that belongs to line pointer i.  Offsets of
\* tuple storage lie above the line pointer array, hence above every offnum.
StorageOff(i) == 100 + i

ItemIdSetUnused == [flags |-> LP_UNUSED, off |-> 0, len |-> 0]
ItemIdSetNormal(o, l) == [flags |-> LP_NORMAL, off |-> o, len |-> l]
ItemIdSetRedirect(link) == [flags |-> LP_REDIRECT, off |-> link, len |-> 0]
ItemIdSetRedirectWithData(itemId, link) ==
    [flags |-> LP_REDIRECT, off |-> link, len |-> itemId.off]
ItemIdSetDead == [flags |-> LP_DEAD, off |-> 0, len |-> 0]

ItemIdIsUsed(itemId) == itemId.flags # LP_UNUSED
ItemIdIsNormal(itemId) == itemId.flags = LP_NORMAL
ItemIdIsRedirected(itemId) == itemId.flags = LP_REDIRECT
ItemIdIsDead(itemId) == itemId.flags = LP_DEAD
ItemIdGetRedirect(itemId) == itemId.off
ItemIdGetOffset(itemId) == itemId.off

\* ------------------------------------------------------------- tuples
NoTuple ==
    [xmin |-> 0, xmax |-> 0, ctid |-> 0, heap_only |-> FALSE,
     partial_heap_only |-> FALSE, hot_updated |-> FALSE,
     phot_updated |-> FALSE, vals |-> [c \in Cols |-> 0]]

NoPayload == [rlp_type |-> 0, rlp_len |-> 0, bits |-> << >>]

XidStatus(x) == IF x = InvalidTransactionId THEN "invalid" ELSE xstatus[x]

HeapTupleHeaderXminInvalid(t) == XidStatus(t.xmin) = "aborted"
XmaxInvalid(t) == XidStatus(t.xmax) \in {"invalid", "aborted"}

HeapTupleHeaderIsHeapOnly(t) == t.heap_only
HeapTupleHeaderIsPartialHeapOnly(t) == t.partial_heap_only
HeapTupleHeaderIsHotUpdated(t) ==
    t.hot_updated /\ ~XmaxInvalid(t) /\ ~HeapTupleHeaderXminInvalid(t)
HeapTupleHeaderIsPartialHotUpdated(t) ==
    t.phot_updated /\ ~XmaxInvalid(t) /\ ~HeapTupleHeaderXminInvalid(t)
HeapTupleHeaderGetUpdateXid(t) == t.xmax
\* A header read that takes the deleting transaction for the inserting one.
HeapTupleHeaderGetXminReadsXmax(t) == t.xmax

HeapTupleHeaderGetXmin(t) == t.xmin

\* ------------------------------------------------- visibility (oracle)
\* HeapTupleSatisfiesVacuumHorizon: the tuple's state in the commit log,
\* with dead_after = xmax for a tuple whose deleter committed.
HeapTupleSatisfiesVacuumHorizon(t) ==
    CASE XidStatus(t.xmin) = "aborted" -> HEAPTUPLE_DEAD
      [] XidStatus(t.xmin) = "inprogress" -> HEAPTUPLE_INSERT_IN_PROGRESS
      [] XidStatus(t.xmax) \in {"invalid", "aborted"} -> HEAPTUPLE_LIVE
      [] XidStatus(t.xmax) = "inprogress" -> HEAPTUPLE_DELETE_IN_PROGRESS
      [] OTHER -> HEAPTUPLE_RECENTLY_DEAD

GlobalVisTestIsRemovableXid(h, xid) == xid < h

heap_prune_satisfies_vacuum(t, h) ==
    LET res == HeapTupleSatisfiesVacuumHorizon(t)
        dead_after == t.xmax
    IN IF res # HEAPTUPLE_RECENTLY_DEAD THEN res
       ELSE IF GlobalVisTestIsRemovableXid(h, dead_after) THEN HEAPTUPLE_DEAD
       ELSE res

\* ------------------------------------------------------- row updates
\* A version can be updated when it is the visible (live) version of its row.
Updatable(i) ==
    /\ i <= maxoff
    /\ ItemIdIsNormal(lp[i])
    /\ XidStatus(tup[i].xmin) = "committed"
    /\ XmaxInvalid(tup[i])

NoneInProgress == \A x \in Xids : xstatus[x] # "inprogress"

\* PageAddItem: the first unused line pointer, else one past the end;
\* InvalidOffsetNumber when the page cannot take another line pointer.
PageAddItemOff ==
    IF \E i \in 1 .. maxoff : ~ItemIdIsUsed(lp[i])
    THEN CHOOSE i \in 1 .. maxoff :
            /\ ~ItemIdIsUsed(lp[i])
            /\ \A j \in 1 .. (i - 1) : ItemIdIsUsed(lp[j])
    ELSE IF maxoff < MaxHeapTuplesPerPage THEN maxoff + 1
    ELSE InvalidOffsetNumber

\* The statements an UPDATE can issue: leave every column, change one column,
\* or change every indexed column.
NewVals(old) ==
    {old}
    \cup {[old EXCEPT ![c] = 1 - old[c]] : c \in Cols}
    \cup {[c \in Cols |-> IF c \in IndexedCols THEN 1 - old[c] ELSE old[c]]}

PageSetPrunable(cur, xid) ==
    IF cur = InvalidTransactionId \/ xid < cur THEN xid ELSE cur

\* heap_update of the live version at slot i to the values nv, by a new
\* transaction.  No indexed column changed: HOT; some but not all indexes
\* changed: partial HOT; otherwise a new root.
heap_update(i, nv) ==
    LET xid == nextXid
        old == tup[i]
        changed == {c \in IndexedCols : nv[c] # old.vals[c]}
        hot == changed = {}
        phot == changed # {} /\ changed # IndexedCols
        n == PageAddItemOff
    IN
    /\ pc = "idle"
    /\ nextXid \in Xids
    /\ NoneInProgress
    /\ Updatable(i)
    /\ nv \in NewVals(old.vals)
    /\ nextXid' = nextXid + 1
    /\ xstatus' = [xstatus EXCEPT ![xid] = "inprogress"]
    /\ pd_prune_xid' = PageSetPrunable(pd_prune_xid, xid)
    /\ IF n # InvalidOffsetNumber
       THEN /\ lp' = [lp EXCEPT ![n] = ItemIdSetNormal(StorageOff(n), 1)]
            /\ maxoff' = IF n > maxoff THEN n ELSE maxoff
            /\ tup' = [tup EXCEPT
                        ![i] = [old EXCEPT !.xmax = xid, !.ctid = n,
                                           !.hot_updated = hot,
                                           !.phot_updated = phot],
                        ![n] = [xmin |-> xid, xmax |-> InvalidTransactionId,
                                ctid |-> n, heap_only |-> hot,
                                partial_heap_only |-> phot,
                                hot_updated |-> FALSE, phot_updated |-> FALSE,
                                vals |-> nv]]
            /\ UNCHANGED pd_full
       ELSE \* the new version goes to another page
            /\ tup' = [tup EXCEPT
                        ![i] = [old EXCEPT !.xmax = xid,
                                           !.ctid = InvalidOffsetNumber,
                                           !.hot_updated = FALSE,
                                           !.phot_updated = FALSE]]
            /\ pd_full' = TRUE
            /\ UNCHANGED <<lp, maxoff>>
    /\ hist' = [hist EXCEPT !.fresh = FALSE]
    /\ UNCHANGED <<pay, horizon, pc, pr, ch, apart>>

\* The updating transaction commits or aborts.
XactEnd(x, outcome) ==
    /\ pc = "idle"
    /\ xstatus[x] = "inprogress"
    /\ outcome \in {"committed", "aborted"}
    /\ xstatus' = [xstatus EXCEPT ![x] = outcome]
    /\ hist' = [hist EXCEPT !.fresh = FALSE]
    /\ UNCHANGED <<page, nextXid, horizon, pc, pr, ch, apart>>

\* ------------------------------------------------ redirect payload codec
Pow2(k) == 2 ^ k
TestBit(byte, k) == (byte \div Pow2(k)) % 2 = 1
NBytes(natts) == (natts + 7) \div 8

\* Value of payload byte k (from 0) after "(*bits)[attr / 8] |= (1 << (attr % 8))"
\* for every attr of attrs.
ByteOf(attrs, k) ==
    LET B(b) == IF (8 * k + b) \in attrs THEN Pow2(b) ELSE 0
    IN B(0) + B(1) + B(2) + B(3) + B(4) + B(5) + B(6) + B(7)

\* StoreModifiedColumnsBitmap: header, then (natts + 7) / 8 zeroed bytes in
\* which bit attr is set for every member attr - FirstLowInvalid... of data.
\* A bit whose byte lies past the allocation is not part of the payload.
StoreModifiedColumnsBitmap(data, natts) ==
    LET len == SizeofRedirectHeaderData + NBytes(natts)
        attrs == {m + FirstLowInvalidHeapAttributeNumber : m \in data}
    IN [rlp_type |-> RLP_PHOT,
        rlp_len |-> len % 4096,
        bits |-> [k \in 1 .. NBytes(natts) |-> ByteOf(attrs, k - 1)]]

\* The decode loop of GetModifiedColumnsBitmap over the stored bytes.
DecodeRedirectData(p) ==
    LET len == p.rlp_len - SizeofRedirectHeaderData
    IN {i - FirstLowInvalidHeapAttributeNumber :
            i \in {j \in 0 .. (len * 8 - 1) :
                      TestBit(p.bits[(j \div 8) + 1], j % 8)}}

\* ----------------------------------------------------------- PruneState
InitPruneState ==
    [new_prune_xid |-> InvalidTransactionId,
     redirected |-> << >>, redirected_data |-> << >>,
     nowdead |-> << >>, nowunused |-> << >>,
     marked |-> {}, offnum |-> FirstOffsetNumber, ndeleted |-> 0,
     remarked |-> FALSE, overfull |-> FALSE,
     old_snap_xmin |-> InvalidTransactionId, old_snap_used |-> FALSE,
     old_snap_limit |-> InvalidTransactionId]

InitChain ==
    [rootoffnum |-> 0, offnum |-> 0, priorXmax |-> InvalidTransactionId,
     chainitems |-> << >>, phot_items |-> << >>,
     latestdead |-> InvalidOffsetNumber, ndeleted |-> 0,
     i |-> 0, lastoff |-> 0, has_phot |-> FALSE, chain_dead |-> FALSE,
     keyitems |-> << >>, intermediate |-> {}, modified_attrs |-> {},
     interesting_null |-> TRUE, interesting_attrs |-> {},
     overrun |-> FALSE]

InitHist ==
    [cls |-> [o \in Offs |-> "none"], fresh |-> FALSE, second |-> FALSE,
     done |-> << >>, pre_lp |-> << >>, pre_tup |-> << >>,
     pre_prune_xid |-> InvalidTransactionId, pre_full |-> FALSE,
     outside |-> FALSE]

\* A hint that keeps the highest transaction id seen instead of the lowest.
RecordPrunableKeepsHighest(p, xid) ==
    IF p.new_prune_xid = InvalidTransactionId \/ xid > p.new_prune_xid
    THEN [p EXCEPT !.new_prune_xid = xid]
    ELSE p

heap_prune_record_prunable(p, xid) ==
    IF p.new_prune_xid = InvalidTransactionId \/ xid < p.new_prune_xid
    THEN [p EXCEPT !.new_prune_xid = xid]
    ELSE p

\* The record functions.  remarked remembers an Assert(!marked[...]) that does
\* not hold, overfull an Assert(n < MaxHeapTuplesPerPage) that does not hold.
heap_prune_record_redirect_with_data(p, offnum, rdoffnum, natts, data) ==
    [p EXCEPT
       !.redirected_data =
            Append(@, [from |-> offnum, to |-> rdoffnum,
                       data |-> StoreModifiedColumnsBitmap(data, natts)]),
       !.overfull = @ \/ Len(p.redirected_data) >= MaxHeapTuplesPerPage,
       !.remarked = @ \/ offnum \in p.marked
                      \/ rdoffnum \in (p.marked \cup {offnum}),
       !.marked = @ \cup {offnum, rdoffnum}]

\* A record function that gives every redirect a payload, an empty one.
RecordRedirectWithEmptyData(p, offnum, rdoffnum) ==
    heap_prune_record_redirect_with_data(p, offnum, rdoffnum, Natts, {})

heap_prune_record_redirect(p, offnum, rdoffnum) ==
    [p EXCEPT
       !.redirected = Append(@, [from |-> offnum, to |-> rdoffnum]),
       !.overfull = @ \/ Len(p.redirected) >= MaxHeapTuplesPerPage,
       !.remarked = @ \/ offnum \in p.marked
                      \/ rdoffnum \in (p.marked \cup {offnum}),
       !.marked = @ \cup {offnum, rdoffnum}]

\* A record function that hands the line pointer back for reuse instead of
\* leaving it behind as dead.
RecordDeadAsUnused(p, offnum) ==
    [p EXCEPT
       !.nowunused = Append(@, offnum),
       !.overfull = @ \/ Len(p.nowunused) >= MaxHeapTuplesPerPage,
       !.remarked = @ \/ offnum \in p.marked,
       !.marked = @ \cup {offnum}]

heap_prune_record_dead(p, offnum) ==
    [p EXCEPT
       !.nowdead = Append(@, offnum),
       !.overfull = @ \/ Len(p.nowdead) >= MaxHeapTuplesPerPage,
       !.remarked = @ \/ offnum \in p.marked,
       !.marked = @ \cup {offnum}]

\* A record function that leaves the line pointer behind as dead instead of
\* handing it back for reuse.
RecordUnusedAsDead(p, offnum) == heap_prune_record_dead(p, offnum)

heap_prune_record_unused(p, offnum) ==
    [p EXCEPT
       !.nowunused = Append(@, offnum),
       !.overfull = @ \/ Len(p.nowunused) >= MaxHeapTuplesPerPage,
       !.remarked = @ \/ offnum \in p.marked,
       !.marked = @ \cup {offnum}]

\* ------------------------------------------- redirect data on the page
\* Line pointer whose storage starts at page offset o (0 if none does).
StorageOwner(o) ==
    IF \E j \in Offs : StorageOff(j) = o
    THEN CHOOSE j \in Offs : StorageOff(j) = o
    ELSE 0

\* Outcomes of reading bytes that are not a redirect payload (the page header
\* at offset 0 or at a small offset, or the stack below chainitems[]).
Garbage == [phot : BOOLEAN, bits : SUBSET Cols]
NoGarbage == [phot |-> FALSE, bits |-> {}]

\* The RedirectHeader found at page + lp_len.
ItemIdGetRedirectHeader(itemId, g) ==
    IF StorageOwner(itemId.len) # 0 /\ pay[StorageOwner(itemId.len)] # NoPayload
    THEN pay[StorageOwner(itemId.len)]
    ELSE [rlp_type |-> IF g.phot THEN RLP_PHOT ELSE 1,
          rlp_len |-> SizeofRedirectHeaderData + NBytes(Natts),
          bits |-> StoreModifiedColumnsBitmap(
                      {c - FirstLowInvalidHeapAttributeNumber : c \in g.bits},
                      Natts).bits]

ItemIdIsPartialHotRedirected(itemId, g) ==
    /\ itemId.flags = LP_REDIRECT
    /\ itemId.len # 0
    /\ ItemIdGetRedirectHeader(itemId, g).rlp_type = RLP_PHOT

\* ------------------------------------------------ modified-column tracker
\* bms_add_range(NULL, 1 - FirstLow..., natts - FirstLow...)
AllAttrs(natts) == {a - FirstLowInvalidHeapAttributeNumber : a \in 1 .. natts}

\* HeapDetermineModifiedColumns: the members of interesting_cols whose
\* attribute differs between the two tuples.
HeapDetermineModifiedColumns(interesting_cols, oldtup, newtup) ==
    {m \in interesting_cols :
        oldtup.vals[m + FirstLowInvalidHeapAttributeNumber]
            # newtup.vals[m + FirstLowInvalidHeapAttributeNumber]}

\* GetModifiedColumnsBitmap.  Returns the bitmap and the state in which the
\* call leaves the caller's interesting_attrs: HeapDetermineModifiedColumns is
\* handed interesting_attrs itself (not the copy) and consumes its members.
GetModifiedColumnsBitmap(oldlp, newlp, newlp_is_phot, ia_null, ia, g) ==
    LET oldid == lp[oldlp]
        newid == lp[newlp]
        same == [modified |-> {}, interesting_attrs |-> ia, asserted |-> TRUE]
    IN
    IF ia_null \/ ia = {} THEN same
    ELSE IF ~newlp_is_phot /\ ~ItemIdIsNormal(oldid) THEN same
    ELSE IF ItemIdIsNormal(oldid)
    THEN [modified |-> HeapDetermineModifiedColumns(ia, tup[oldlp], tup[newlp]),
          interesting_attrs |-> {},
          asserted |-> ItemIdIsNormal(newid)]
    ELSE [modified |->
            DecodeRedirectData(ItemIdGetRedirectHeader(oldid, g)) \cap ia,
          interesting_attrs |-> ia,
          asserted |-> ItemIdIsPartialHotRedirected(oldid, g)]

\* ------------------------------------------------------ heap_page_prune
\* The horizon of a visibility test never moves back and never passes a
\* running transaction.
HorizonLimit ==
    IF NoneInProgress THEN nextXid
    ELSE CHOOSE x \in Xids :
            /\ xstatus[x] = "inprogress"
            /\ \A y \in Xids : xstatus[y] = "inprogress" => x <= y

\* heap_page_prune, up to the start of the scan: initialise the working state.
PruneStartWith(h, p0) ==
    /\ pc = "idle"
    /\ h \in {horizon, HorizonLimit}
    /\ horizon' = h
    /\ pr' = p0
    /\ ch' = InitChain
    /\ hist' = [InitHist EXCEPT !.fresh = hist.fresh,
                                !.second = hist.fresh /\ h = horizon,
                                !.pre_lp = lp, !.pre_tup = tup,
                                !.pre_prune_xid = pd_prune_xid,
                                !.pre_full = pd_full]
    /\ pc' = "scan"
    /\ UNCHANGED <<page, xstatus, nextXid, codec, root_offsets, pgstat>>

\* old_snapshot_threshold is off: no limited horizon is handed in.
PruneStart(h) == PruneStartWith(h, InitPruneState)

\* heap_page_prune called directly, by a caller that holds the cleanup lock.
PruneBegin(h) == PruneStart(h) /\ UNCHANGED buf

\* A scan that stores the prune hint it has gathered straight into the page
\* header.
ScanStoresHint ==
    /\ pd_prune_xid' = pr.new_prune_xid
    /\ UNCHANGED <<lp, tup, pay, maxoff, pd_full>>

\* "We don't actually change the page here": the scan only adds entries to
\* the arrays of the working state.
ScanKeepsPage == UNCHANGED <<lp, tup, pay, maxoff, pd_prune_xid, pd_full>>

\* A looser test that lets a recently dead tuple into the deletable prefix.
IsTupDeadOrRecentlyDead(res) ==
    res \in {HEAPTUPLE_DEAD, HEAPTUPLE_RECENTLY_DEAD}

\* tupdead is set for HEAPTUPLE_DEAD alone.
IsTupDead(res) == res = HEAPTUPLE_DEAD

\* The scan loop skips an item that an earlier chain marked, or that is
\* unused or already dead.
ScanSkip ==
    /\ pc = "scan"
    /\ pr.offnum <= maxoff
    /\ \/ pr.offnum \in pr.marked
       \/ ~ItemIdIsUsed(lp[pr.offnum])
       \/ ItemIdIsDead(lp[pr.offnum])
    /\ pr' = [pr EXCEPT !.offnum = @ + 1]
    /\ ScanKeepsPage
    /\ UNCHANGED <<apart, xstatus, nextXid, horizon, pc, ch, hist>>

ScanItem ==
    /\ pc = "scan"
    /\ pr.offnum <= maxoff
    /\ pr.offnum \notin pr.marked
    /\ ItemIdIsUsed(lp[pr.offnum])
    /\ ~ItemIdIsDead(lp[pr.offnum])

IsHeapOnlyRoot(o) ==
    /\ ItemIdIsNormal(lp[o])
    /\ \/ HeapTupleHeaderIsHeapOnly(tup[o])
       \/ HeapTupleHeaderIsPartialHeapOnly(tup[o])

\* heap_prune_chain on a heap-only or partial heap-only tuple: it is not the
\* start of a chain; reap it if it is DEAD and does not chain further.
\* res is the answer of heap_prune_satisfies_vacuum for the tuple and p the
\* working state that call leaves behind.
ChainHeapOnlyRes(res, p) ==
    LET o == pr.offnum
        htup == tup[o]
        reap == /\ IsTupDead(res)
                /\ ~HeapTupleHeaderIsHotUpdated(htup)
                /\ ~HeapTupleHeaderIsPartialHotUpdated(htup)
        rec == IF HeapTupleHeaderIsHeapOnly(htup)
               THEN heap_prune_record_unused(p, o)
               ELSE heap_prune_record_dead(p, o)
    IN
    /\ ScanItem
    /\ IsHeapOnlyRoot(o)
    /\ hist' = [hist EXCEPT !.cls[o] = res]
    /\ pr' = IF reap
             THEN [rec EXCEPT !.ndeleted = @ + 1, !.offnum = @ + 1]
             ELSE [p EXCEPT !.offnum = @ + 1]
    /\ ScanKeepsPage
    /\ UNCHANGED <<apart, xstatus, nextXid, horizon, pc, ch>>

ChainHeapOnly ==
    ChainHeapOnlyRes(heap_prune_satisfies_vacuum(tup[pr.offnum], horizon), pr)

\* heap_prune_chain on any other item: start the walk from it.
ChainStart ==
    /\ ScanItem
    /\ ~IsHeapOnlyRoot(pr.offnum)
    /\ ch' = [InitChain EXCEPT !.rootoffnum = pr.offnum, !.offnum = pr.offnum]
    /\ pc' = "walk"
    /\ ScanKeepsPage
    /\ UNCHANGED <<apart, xstatus, nextXid, horizon, pr, hist>>

\* elog(ERROR, "unexpected HeapTupleSatisfiesVacuum result"): control leaves
\* heap_page_prune from within the walk.
ElogError(offnum, res) ==
    /\ pc' = "error"
    /\ hist' = [hist EXCEPT !.cls[offnum] = res]
    /\ UNCHANGED <<pr, ch>>

\* One iteration of the for (;;) loop of heap_prune_chain.  res is the answer
\* of heap_prune_satisfies_vacuum for the tuple at offnum, if there is one, and
\* p the working state that call leaves behind.
ChainWalkRes(g, res, p) ==
    LET offnum == ch.offnum
        nchain == Len(ch.chainitems)
        itemid == lp[offnum]
        htup == tup[offnum]
        \* chainitems[nchain - 2] once chainitems[nchain] = offnum is stored;
        \* below the array when nchain < 2
        prevphot == IF nchain >= 2
                    THEN ItemIdIsPartialHotRedirected(
                            lp[ch.chainitems[nchain - 1]], g)
                    ELSE g.phot
        isphot == \/ HeapTupleHeaderIsPartialHeapOnly(htup)
                  \/ /\ ~HeapTupleHeaderIsHeapOnly(htup)
                     /\ HeapTupleHeaderIsPartialHotUpdated(htup)
        member == [ch EXCEPT !.chainitems = Append(@, offnum),
                             !.phot_items = Append(@, isphot)]
        leave == /\ pc' = "tail"
                 /\ UNCHANGED <<pr, hist>>
        \* the "sanity checks" break; hist.outside remembers that it was taken
        range == /\ pc' = "tail"
                 /\ hist' = [hist EXCEPT !.outside = TRUE]
                 /\ UNCHANGED pr
        \* chainitems and phot_items have MaxHeapTuplesPerPage elements and
        \* nothing compares nchain with that: the store of one more member
        \* lands behind the arrays, and what the function does from there on
        \* is not defined.
        full == nchain >= MaxHeapTuplesPerPage
        smash == /\ ch' = [ch EXCEPT !.overrun = TRUE]
                 /\ pc' = "overrun"
                 /\ UNCHANGED <<pr, hist>>
    IN
    /\ pc = "walk"
    /\ g \in Garbage
    \* only the type field is looked at here, and only for a redirect
    /\ g.bits = {}
    /\ \/ offnum \in 1 .. maxoff /\ ItemIdIsRedirected(itemid)
       \/ g = NoGarbage
    /\ IF offnum < FirstOffsetNumber \/ offnum > maxoff
       THEN range /\ UNCHANGED ch
       ELSE IF offnum \in pr.marked THEN leave /\ UNCHANGED ch
       ELSE IF ~ItemIdIsUsed(itemid) THEN leave /\ UNCHANGED ch
       ELSE IF ItemIdIsRedirected(itemid) /\ full THEN smash
       ELSE IF ItemIdIsRedirected(itemid)
       THEN /\ ch' = [ch EXCEPT
                        !.chainitems = Append(@, offnum),
                        !.offnum = ItemIdGetRedirect(itemid),
                        !.phot_items = Append(@,
                            IF offnum = ch.rootoffnum
                            THEN ItemIdIsPartialHotRedirected(itemid, g)
                            ELSE prevphot)]
            /\ UNCHANGED <<pc, pr, hist>>
       ELSE IF ItemIdIsDead(itemid) THEN leave /\ UNCHANGED ch
       ELSE IF /\ ch.priorXmax # InvalidTransactionId
               /\ HeapTupleHeaderGetXmin(htup) # ch.priorXmax
       THEN leave /\ UNCHANGED ch
       ELSE IF full THEN smash
       ELSE IF res \notin HTSV_Result THEN ElogError(offnum, res)
       ELSE /\ hist' = [hist EXCEPT !.cls[offnum] = res]
            /\ pr' = IF res \in {HEAPTUPLE_RECENTLY_DEAD,
                                 HEAPTUPLE_DELETE_IN_PROGRESS}
                     THEN heap_prune_record_prunable(
                              p, HeapTupleHeaderGetUpdateXid(htup))
                     ELSE p
            /\ IF ~IsTupDead(res)
               THEN ch' = member /\ pc' = "tail"
               ELSE IF /\ ~HeapTupleHeaderIsHotUpdated(htup)
                       /\ ~HeapTupleHeaderIsPartialHotUpdated(htup)
               THEN /\ ch' = [member EXCEPT !.latestdead = offnum]
                    /\ pc' = "tail"
               ELSE /\ ch' = [member EXCEPT
                                !.latestdead = offnum,
                                !.offnum = htup.ctid,
                                !.priorXmax = HeapTupleHeaderGetUpdateXid(htup)]
                    /\ pc' = "walk"
    /\ ScanKeepsPage
    /\ UNCHANGED <<apart, xstatus, nextXid, horizon>>

ChainWalk(g) ==
    ChainWalkRes(g, heap_prune_satisfies_vacuum(tup[ch.offnum], horizon), pr)

\* heap_prune_chain returns to the scan loop: ndeleted is added up and the
\* scan moves to the next offset.  The finished chain is remembered.
\* A return from heap_prune_chain whose count the caller throws away.
ChainReturnDropsCount(p, c) ==
    /\ pr' = [p EXCEPT !.offnum = @ + 1]
    /\ ch' = c
    /\ hist' = [hist EXCEPT !.done = Append(@, c)]
    /\ pc' = "scan"

ChainReturn(p, c) ==
    /\ pr' = [p EXCEPT !.ndeleted = @ + c.ndeleted, !.offnum = @ + 1]
    /\ ch' = c
    /\ hist' = [hist EXCEPT !.done = Append(@, c)]
    /\ pc' = "scan"

\* After the walk: the last chain item (lines 760-798), or a redirect that
\* leads nowhere (lines 957-967).
ChainTail ==
    LET nchain == Len(ch.chainitems)
        lastoff == ch.chainitems[nchain]
        has_phot == ch.phot_items[nchain]
        chain_dead == lastoff = ch.latestdead
        c0 == [ch EXCEPT !.lastoff = lastoff, !.has_phot = has_phot,
                         !.chain_dead = chain_dead, !.i = nchain - 2]
    IN
    /\ pc = "tail"
    /\ IF ch.latestdead # InvalidOffsetNumber
       THEN /\ pc' = "interior"
            /\ UNCHANGED hist
            /\ IF chain_dead
               THEN /\ ch' = [c0 EXCEPT !.ndeleted =
                                IF ItemIdIsNormal(lp[lastoff]) THEN @ + 1 ELSE @]
                    /\ pr' = IF nchain - 1 = 0 \/ has_phot
                             THEN heap_prune_record_dead(pr, lastoff)
                             ELSE heap_prune_record_unused(pr, lastoff)
               ELSE IF has_phot /\ nchain > 1
               THEN \* interesting_attrs is still NULL here
                    /\ ch' = [c0 EXCEPT
                                !.keyitems = <<lastoff>>,
                                !.intermediate =
                                    GetModifiedColumnsBitmap(
                                        ch.chainitems[nchain - 1], lastoff, TRUE,
                                        TRUE, {}, [phot |-> FALSE, bits |-> {}]
                                    ).modified,
                                !.modified_attrs = {}]
                    /\ UNCHANGED pr
               ELSE ch' = c0 /\ UNCHANGED pr
       ELSE IF nchain < 2 /\ ItemIdIsRedirected(lp[ch.rootoffnum])
       THEN ChainReturn(heap_prune_record_dead(pr, ch.rootoffnum), ch)
       ELSE ChainReturn(pr, ch)
    /\ ScanKeepsPage
    /\ UNCHANGED <<apart, xstatus, nextXid, horizon>>

\* One iteration of "for (i = nchain - 2; i > 0; i--)".
ChainInterior(g) ==
    LET i == ch.i
        item == ch.chainitems[i + 1]
        pred == ch.chainitems[i]
        isphot == ch.phot_items[i + 1]
        nkeys == Len(ch.keyitems)
        c1 == [ch EXCEPT !.i = i - 1,
                         !.ndeleted = IF ItemIdIsNormal(lp[item])
                                      THEN @ + 1 ELSE @]
        ia_null == FALSE
        ia == IF ch.interesting_null THEN AllAttrs(Natts)
              ELSE ch.interesting_attrs
        r == GetModifiedColumnsBitmap(pred, item, isphot, ia_null, ia, g)
        modified == r.modified
        c2 == [c1 EXCEPT !.interesting_null = FALSE,
                         !.interesting_attrs = r.interesting_attrs]
    IN
    /\ pc = "interior"
    /\ i > 0
    /\ g \in Garbage
    \* a payload is read only when the preceding item is not a tuple
    /\ ~ItemIdIsNormal(lp[pred]) \/ g = NoGarbage
    /\ IF ch.chain_dead \/ (~ch.has_phot /\ ~isphot)
       THEN /\ pr' = IF isphot THEN heap_prune_record_dead(pr, item)
                     ELSE heap_prune_record_unused(pr, item)
            /\ ch' = c1
       ELSE IF modified = {}
       THEN /\ pr' = heap_prune_record_unused(pr, item)
            /\ ch' = c2
       ELSE IF isphot /\ ~ch.has_phot
       THEN /\ pr' = heap_prune_record_redirect(pr, item, ch.lastoff)
            /\ ch' = [c2 EXCEPT !.keyitems = Append(@, item),
                                !.intermediate = modified,
                                !.modified_attrs = modified,
                                !.has_phot = TRUE]
       ELSE IF ~isphot /\ ch.has_phot
       THEN /\ pr' = heap_prune_record_unused(pr, item)
            /\ ch' = c2
       ELSE IF modified \subseteq ch.modified_attrs
       THEN /\ pr' = heap_prune_record_dead(pr, item)
            /\ ch' = [c2 EXCEPT !.intermediate = @ \cup modified]
       ELSE /\ pr' = heap_prune_record_redirect_with_data(
                        pr, item, ch.keyitems[nkeys], Natts, ch.intermediate)
            /\ ch' = [c2 EXCEPT
                        !.keyitems = Append(@, item),
                        !.intermediate = modified,
                        !.modified_attrs = @ \cup modified,
                        !.chain_dead =
                            (ch.modified_attrs \cup modified)
                                = r.interesting_attrs]
    /\ ScanKeepsPage
    /\ UNCHANGED <<apart, xstatus, nextXid, horizon, pc, hist>>

\* The root item (lines 931-950), then return.
ChainRoot ==
    LET nchain == Len(ch.chainitems)
        nkeys == Len(ch.keyitems)
        root == ch.rootoffnum
        c1 == [ch EXCEPT !.ndeleted = IF ItemIdIsNormal(lp[root])
                                      THEN @ + 1 ELSE @]
    IN
    /\ pc = "interior"
    /\ ch.i <= 0
    /\ IF nchain > 1
       THEN ChainReturn(
                IF ch.chain_dead THEN heap_prune_record_dead(pr, root)
                ELSE IF nkeys > 0
                THEN heap_prune_record_redirect_with_data(
                        pr, root, ch.keyitems[nkeys], Natts, ch.intermediate)
                ELSE heap_prune_record_redirect(pr, root, ch.lastoff),
                c1)
       ELSE ChainReturn(pr, ch)
    /\ ScanKeepsPage
    /\ UNCHANGED <<apart, xstatus, nextXid, horizon>>

\* The scan loop has passed the last offset.
ScanDone ==
    /\ pc = "scan"
    /\ pr.offnum > maxoff
    /\ pc' = "apply"
    /\ ScanKeepsPage
    /\ UNCHANGED <<apart, xstatus, nextXid, horizon, pr, ch, hist>>

\* ----------------------------------------------- heap_page_prune_execute
\* The four loops, in order, over the line pointers and the payload storage.
RECURSIVE ExecRedirected(_, _)
ExecRedirected(l, rs) ==
    IF rs = << >> THEN l
    ELSE ExecRedirected(
            [l EXCEPT ![Head(rs).from] = ItemIdSetRedirect(Head(rs).to)],
            Tail(rs))

RECURSIVE ExecRedirectedData(_, _)
ExecRedirectedData(st, rs) ==
    IF rs = << >> THEN st
    ELSE LET e == Head(rs)
             fromlp == st.lp[e.from]
             origoff == ItemIdGetOffset(fromlp)
             owner == StorageOwner(origoff)
         IN ExecRedirectedData(
                [lp |-> [st.lp EXCEPT ![e.from] =
                            ItemIdSetRedirectWithData(fromlp, e.to)],
                 pay |-> IF owner # 0
                         THEN [st.pay EXCEPT ![owner] = e.data]
                         ELSE st.pay],
                Tail(rs))

RECURSIVE ExecSet(_, _, _)
ExecSet(l, offs, v) ==
    IF offs = << >> THEN l
    ELSE ExecSet([l EXCEPT ![Head(offs)] = v], Tail(offs), v)

heap_page_prune_execute(p) ==
    LET l1 == ExecRedirected(lp, p.redirected)
        st == ExecRedirectedData([lp |-> l1, pay |-> pay], p.redirected_data)
        l3 == ExecSet(st.lp, p.nowdead, ItemIdSetDead)
        l4 == ExecSet(l3, p.nowunused, ItemIdSetUnused)
    IN [lp |-> l4, pay |-> st.pay]

\* PageRepairFragmentation: storage of items that are no longer LP_NORMAL is
\* given up; a redirect with data keeps the payload it points to.
PageRepairFragmentation(st) ==
    [lp |-> st.lp,
     tup |-> [o \in Offs |-> IF ItemIdIsNormal(st.lp[o]) THEN tup[o]
                             ELSE NoTuple],
     pay |-> [o \in Offs |->
                IF \E q \in Offs : /\ ItemIdIsRedirected(st.lp[q])
                                   /\ st.lp[q].len = StorageOff(o)
                THEN st.pay[o] ELSE NoPayload]]

PlanIsEmpty(p) ==
    /\ Len(p.redirected) = 0
    /\ Len(p.redirected_data) = 0
    /\ Len(p.nowdead) = 0
    /\ Len(p.nowunused) = 0

\* The arguments of the log_heap_clean call in heap_page_prune: the plain
\* redirects, the dead and the unused items.  The redirects with data and
\* their payloads are not among them.
log_heap_clean(p) ==
    [redirected |-> p.redirected, redirected_data |-> << >>,
     nowdead |-> p.nowdead, nowunused |-> p.nowunused]

\* A pass that drops its plan instead of applying it.
PruneApplySkips ==
    /\ pc = "apply"
    /\ pc' = "done"
    /\ UNCHANGED <<page, xstatus, nextXid, horizon, pr, ch, hist, apart>>

\* The critical section of heap_page_prune.
PruneApply ==
    LET st == PageRepairFragmentation(heap_page_prune_execute(pr))
    IN
    /\ pc = "apply"
    /\ IF ~PlanIsEmpty(pr)
       THEN /\ lp' = st.lp
            /\ tup' = st.tup
            /\ pay' = st.pay
            /\ pd_prune_xid' = pr.new_prune_xid
            /\ pd_full' = FALSE
       ELSE /\ UNCHANGED <<lp, tup, pay>>
            /\ IF pd_prune_xid # pr.new_prune_xid \/ pd_full
               THEN pd_prune_xid' = pr.new_prune_xid /\ pd_full' = FALSE
               ELSE UNCHANGED <<pd_prune_xid, pd_full>>
    /\ pc' = "done"
    /\ UNCHANGED <<maxoff, xstatus, nextXid, horizon, pr, ch, hist, apart>>

\* heap_page_prune returns ndeleted; the working state goes out of scope.
PruneReturn ==
    /\ pc = "done"
    /\ pc' = "idle"
    /\ pr' = InitPruneState
    /\ ch' = InitChain
    /\ hist' = [InitHist EXCEPT !.fresh = TRUE]
    /\ UNCHANGED <<page, xstatus, nextXid, horizon, apart>>

\* -------------------------------------------------------- specification
NoCodec ==
    [pc |-> "none", natts |-> 0, data |-> {}, payload |-> NoPayload,
     out |-> {}]

\* Nobody holds the buffer's content lock and heap_page_prune_opt is not
\* running.
NoBuf ==
    [lock |-> "none", pc |-> "out", taken |-> 0, released |-> 0]

\* heap_get_root_tuples has not been called.
\* No table of the regression scripts is being looked at.
NoStats ==
    [nindexes |-> 0, changed |-> 0, counted |-> FALSE,
     t_tuples_updated |-> 0, t_tuples_hot_updated |-> 0]

NoRoots == [pc |-> "none", out |-> [o \in Offs |-> InvalidOffsetNumber]]

\* A page holding one row, inserted by the committed transaction 1.
PageInit ==
    /\ maxoff = 1
    /\ lp = [o \in Offs |-> IF o = 1 THEN ItemIdSetNormal(StorageOff(1), 1)
                            ELSE ItemIdSetUnused]
    /\ tup = [o \in Offs |-> IF o = 1
                             THEN [NoTuple EXCEPT !.xmin = 1, !.ctid = 1]
                             ELSE NoTuple]
    /\ pay = [o \in Offs |-> NoPayload]
    /\ pd_prune_xid = InvalidTransactionId
    /\ pd_full = FALSE
    /\ xstatus = [x \in Xids |-> IF x = 1 THEN "committed" ELSE "unused"]
    /\ nextXid = 2
    /\ horizon = 2
    /\ pc = "idle"
    /\ pr = InitPruneState
    /\ ch = InitChain
    /\ hist = InitHist

Init ==
    /\ PageInit
    /\ codec = NoCodec
    /\ buf = NoBuf
    /\ root_offsets = NoRoots
    /\ pgstat = NoStats

Next ==
    \/ \E i \in Offs : \E nv \in [Cols -> Vals] :
          nextXid <= MaxXid /\ heap_update(i, nv)
    \/ \E x \in Xids : \E o \in {"committed", "aborted"} : XactEnd(x, o)
    \/ \E h \in 1 .. (MaxXid + 1) : PruneBegin(h)
    \/ ScanSkip
    \/ ChainHeapOnly
    \/ ChainStart
    \/ \E g \in Garbage : ChainWalk(g)
    \/ ChainTail
    \/ \E g \in Garbage : ChainInterior(g)
    \/ ChainRoot
    \/ ScanDone
    \/ PruneApply
    \/ PruneReturn

Spec == Init /\ [][Next]_vars

\* The runs in which every transaction commits and a pass is started only
\* when no transaction is running, with the horizon at its limit.
PruneCommitted == NoneInProgress /\ PruneBegin(HorizonLimit)

CommittedNext ==
    \/ \E i \in Offs : \E nv \in [Cols -> Vals] : heap_update(i, nv)
    \/ \E x \in Xids : XactEnd(x, "committed")
    \/ PruneCommitted
    \/ ScanSkip
    \/ ChainHeapOnly
    \/ ChainStart
    \/ \E g \in Garbage : ChainWalk(g)
    \/ ChainTail
    \/ \E g \in Garbage : ChainInterior(g)
    \/ ChainRoot
    \/ ScanDone
    \/ PruneApply
    \/ PruneReturn

CommittedSpec == Init /\ [][CommittedNext]_vars

\* The values an UPDATE that is not partial can write: every column as it
\* was, or every indexed column changed.
WholeVals(old) ==
    {old, [c \in Cols |-> IF c \in IndexedCols THEN 1 - old[c] ELSE old[c]]}

\* The runs in which no update is partial: every new version is heap-only or
\* a new root, transactions commit or abort, and the page fills up until an
\* update has to go to another page.
FullPageNext ==
    \/ \E i \in Offs : \E nv \in WholeVals(tup[i].vals) :
          nextXid <= MaxXid + 1 /\ heap_update(i, nv)
    \/ \E x \in Xids : \E o \in {"committed", "aborted"} : XactEnd(x, o)
    \/ \E h \in 1 .. (MaxXid + 2) : PruneBegin(h)
    \/ ScanSkip
    \/ ChainHeapOnly
    \/ ChainStart
    \/ \E g \in Garbage : ChainWalk(g)
    \/ ChainTail
    \/ \E g \in Garbage : ChainInterior(g)
    \/ ChainRoot
    \/ ScanDone
    \/ PruneApply
    \/ PruneReturn

FullPageSpec == Init /\ [][FullPageNext]_vars

\* ------------------------------------- an oracle that breaks its contract
\* The error leaves heap_page_prune and the caller's transaction: the working
\* state is gone, the page is as the scan left it.
PruneAbort ==
    /\ pc = "error"
    /\ pc' = "idle"
    /\ pr' = InitPruneState
    /\ ch' = InitChain
    /\ hist' = InitHist
    /\ UNCHANGED <<page, xstatus, nextXid, horizon, apart>>

\* What the visibility routines may hand back for tuple t when they are not
\* held to their contract.
OracleAnswer(t, bad) ==
    IF bad THEN HEAPTUPLE_UNEXPECTED
    ELSE heap_prune_satisfies_vacuum(t, horizon)

FaultNext ==
    \/ \E i \in Offs : \E nv \in WholeVals(tup[i].vals) :
          nextXid <= MaxXid /\ heap_update(i, nv)
    \/ \E x \in Xids : \E o \in {"committed", "aborted"} : XactEnd(x, o)
    \/ \E h \in 1 .. (MaxXid + 1) : PruneBegin(h)
    \/ ScanSkip
    \/ \E bad \in BOOLEAN :
          ChainHeapOnlyRes(OracleAnswer(tup[pr.offnum], bad), pr)
    \/ ChainStart
    \/ \E g \in Garbage : \E bad \in BOOLEAN :
          ChainWalkRes(g, OracleAnswer(tup[ch.offnum], bad), pr)
    \/ ChainTail
    \/ \E g \in Garbage : ChainInterior(g)
    \/ ChainRoot
    \/ ScanDone
    \/ PruneApply
    \/ PruneReturn
    \/ PruneAbort

FaultSpec == Init /\ [][FaultNext]_vars

\* -------------------------------------------------- heap_get_root_tuples
\* The for (;;) loop that follows a chain from the item at offnum and enters
\* offnum for every tuple it meets.  n bounds the steps of the loop; an offset
\* outside the line pointer array ends it like an item that is not normal.
RECURSIVE RootChase(_, _, _, _, _)
RootChase(out, offnum, nextoffnum, priorXmax, n) ==
    IF n = 0 \/ nextoffnum \notin Offs THEN out
    ELSE LET itemid == lp[nextoffnum]
             htup == tup[nextoffnum]
         IN IF ~ItemIdIsNormal(itemid) THEN out
            ELSE IF /\ priorXmax # InvalidTransactionId
                    /\ priorXmax # HeapTupleHeaderGetXmin(htup)
            THEN out
            ELSE IF ~HeapTupleHeaderIsHotUpdated(htup)
            THEN [out EXCEPT ![nextoffnum] = offnum]
            ELSE RootChase([out EXCEPT ![nextoffnum] = offnum], offnum,
                           htup.ctid, HeapTupleHeaderGetUpdateXid(htup), n - 1)

\* The loop over the line pointers of the page, from offnum on.
RECURSIVE RootScan(_, _)
RootScan(out, offnum) ==
    IF offnum > maxoff THEN out
    ELSE LET itemid == lp[offnum]
             htup == tup[offnum]
             own == [out EXCEPT ![offnum] = offnum]
         IN IF ~ItemIdIsUsed(itemid) \/ ItemIdIsDead(itemid)
            THEN RootScan(out, offnum + 1)
            ELSE IF ItemIdIsNormal(itemid)
            THEN IF HeapTupleHeaderIsHeapOnly(htup)
                 THEN RootScan(out, offnum + 1)
                 ELSE IF ~HeapTupleHeaderIsHotUpdated(htup)
                 THEN RootScan(own, offnum + 1)
                 ELSE RootScan(
                        RootChase(own, offnum, htup.ctid,
                                  HeapTupleHeaderGetUpdateXid(htup),
                                  MaxHeapTuplesPerPage),
                        offnum + 1)
            ELSE RootScan(
                    RootChase(out, offnum, ItemIdGetRedirect(itemid),
                              InvalidTransactionId, MaxHeapTuplesPerPage),
                    offnum + 1)

heap_get_root_tuples == RootScan(NoRoots.out, FirstOffsetNumber)

\* A caller that holds a lock on the buffer, so that no pass is running,
\* asks for the root of every item.
GetRootTuples ==
    /\ pc = "idle"
    /\ root_offsets.pc = "none"
    /\ root_offsets' = [pc |-> "done", out |-> heap_get_root_tuples]
    /\ UNCHANGED <<page, xstatus, nextXid, horizon, pc, pr, ch, hist, codec,
                   buf, pgstat>>

\* The caller is done with the array and lets go of the buffer.
RootsReturn ==
    /\ root_offsets.pc = "done"
    /\ root_offsets' = NoRoots
    /\ UNCHANGED <<page, xstatus, nextXid, horizon, pc, pr, ch, hist, codec,
                   buf, pgstat>>

\* Updates and passes as in Next; the page stands still while a caller looks
\* at the roots it was given.
RootsNext ==
    \/ root_offsets.pc = "none" /\ Next
    \/ GetRootTuples
    \/ RootsReturn

RootsSpec == Init /\ [][RootsNext]_vars

\* --------------------------------------------------- heap_page_prune_opt
\* ConditionalLockBufferForCleanup succeeds only if nobody else holds the
\* buffer; it never waits.
ConditionalLockBufferForCleanup(b) == b.lock = "none"

LockBufferForCleanup(b) == [b EXCEPT !.lock = "self", !.taken = @ + 1]

\* A return path that forgets the lock.
LeaveBufferLocked(b) == b

\* LockBuffer(buffer, BUFFER_LOCK_UNLOCK)
LockBufferUnlock(b) == [b EXCEPT !.lock = "none", !.released = @ + 1]

\* The checks made without any lock: the page has a prune hint, the hint is
\* behind the horizon, and the page is full or short of free space (low).
\* Where a check fails the function returns at once and nothing changes.
OptEnter(low) ==
    /\ pc = "idle"
    /\ buf.pc = "out"
    /\ low \in BOOLEAN
    /\ pd_prune_xid # InvalidTransactionId
    /\ \E h \in {horizon, HorizonLimit} :
            GlobalVisTestIsRemovableXid(h, pd_prune_xid)
    /\ pd_full \/ low
    /\ buf' = [buf EXCEPT !.pc = "trylock", !.taken = 0, !.released = 0]
    /\ UNCHANGED <<page, xstatus, nextXid, horizon, pc, pr, ch, hist, codec,
                   root_offsets, pgstat>>

\* "if (!ConditionalLockBufferForCleanup(buffer)) return;"
OptLockFail ==
    /\ buf.pc = "trylock"
    /\ ~ConditionalLockBufferForCleanup(buf)
    /\ buf' = [buf EXCEPT !.pc = "out"]
    /\ UNCHANGED <<page, xstatus, nextXid, horizon, pc, pr, ch, hist, codec,
                   root_offsets, pgstat>>

OptLock ==
    /\ buf.pc = "trylock"
    /\ ConditionalLockBufferForCleanup(buf)
    /\ buf' = [LockBufferForCleanup(buf) EXCEPT !.pc = "recheck"]
    /\ UNCHANGED <<page, xstatus, nextXid, horizon, pc, pr, ch, hist, codec,
                   root_offsets, pgstat>>

\* The heuristic holds again under the lock: heap_page_prune is called.
OptPrune(low, h) ==
    /\ buf.pc = "recheck"
    /\ low \in BOOLEAN
    /\ pd_full \/ low
    /\ PruneStart(h)
    /\ buf' = [buf EXCEPT !.pc = "pruning"]

\* The heuristic does not hold any more: nothing to do but unlock.
OptNoPrune ==
    /\ buf.pc = "recheck"
    /\ ~pd_full
    /\ buf' = [buf EXCEPT !.pc = "unlock"]
    /\ UNCHANGED <<page, xstatus, nextXid, horizon, pc, pr, ch, hist, codec,
                   root_offsets, pgstat>>

\* "And release buffer lock", once heap_page_prune has returned or was not
\* called.
OptUnlock ==
    /\ \/ buf.pc = "unlock"
       \/ buf.pc = "pruning" /\ pc = "idle"
    /\ buf' = [LockBufferUnlock(buf) EXCEPT !.pc = "out"]
    /\ UNCHANGED <<page, xstatus, nextXid, horizon, pc, pr, ch, hist, codec,
                   root_offsets, pgstat>>

\* Another backend takes the buffer's lock, or lets go of it.
OtherLock ==
    /\ buf.lock = "none"
    /\ buf' = [buf EXCEPT !.lock = "other"]
    /\ UNCHANGED <<page, xstatus, nextXid, horizon, pc, pr, ch, hist, codec,
                   root_offsets, pgstat>>

OtherUnlock ==
    /\ buf.lock = "other"
    /\ buf' = [buf EXCEPT !.lock = "none"]
    /\ UNCHANGED <<page, xstatus, nextXid, horizon, pc, pr, ch, hist, codec,
                   root_offsets, pgstat>>

\* Updates by other backends, made while this one does not hold the lock, and
\* passes that are started by heap_page_prune_opt alone.
OptNext ==
    \/ \E i \in Offs : \E nv \in WholeVals(tup[i].vals) :
          /\ nextXid <= MaxXid
          /\ buf.lock # "self"
          /\ heap_update(i, nv)
    \/ \E x \in Xids : \E o \in {"committed", "aborted"} : XactEnd(x, o)
    \/ \E low \in BOOLEAN : OptEnter(low)
    \/ OptLockFail
    \/ OptLock
    \/ \E low \in BOOLEAN : \E h \in 1 .. (MaxXid + 1) : OptPrune(low, h)
    \/ OptNoPrune
    \/ OptUnlock
    \/ OtherLock
    \/ OtherUnlock
    \/ ScanSkip
    \/ ChainHeapOnly
    \/ ChainStart
    \/ \E g \in Garbage : ChainWalk(g)
    \/ ChainTail
    \/ \E g \in Garbage : ChainInterior(g)
    \/ ChainRoot
    \/ ScanDone
    \/ PruneApply
    \/ PruneReturn

OptSpec == Init /\ [][OptNext]_vars

\* ------------------------------------------- a pass over any page content
\* Number of line pointers of the pages handed to a pass as they come, sound
\* or not.
AnyPageSlots == 3

\* What a line pointer of such a page can hold: nothing, a dead item, a plain
\* redirect to any slot, or a tuple written and updated or deleted by the
\* committed transaction 2, whose successor pointer names any slot.  The page
\* has AnyPageSlots line pointers or one fewer, so that a pointer to the last
\* slot can lie beyond the line pointer array.
AnyTuple ==
    {[NoTuple EXCEPT !.xmin = 2, !.xmax = x, !.ctid = t,
                     !.heap_only = f[1], !.partial_heap_only = f[2],
                     !.hot_updated = f[3], !.phot_updated = f[4]] :
        x \in {InvalidTransactionId, 2}, t \in 1 .. AnyPageSlots,
        f \in {<<FALSE, FALSE, TRUE, FALSE>>, <<TRUE, FALSE, TRUE, FALSE>>,
               <<FALSE, TRUE, FALSE, TRUE>>, <<FALSE, FALSE, FALSE, TRUE>>,
               <<TRUE, FALSE, FALSE, FALSE>>}}

AnyItem ==
    {[flags |-> LP_UNUSED, link |-> 0, tup |-> NoTuple],
     [flags |-> LP_DEAD, link |-> 0, tup |-> NoTuple]}
    \cup {[flags |-> LP_REDIRECT, link |-> t, tup |-> NoTuple] :
            t \in 1 .. AnyPageSlots}
    \cup {[flags |-> LP_NORMAL, link |-> 0, tup |-> t] : t \in AnyTuple}

\* The line pointer of slot o that holds item.
AnyItemId(o, item) ==
    CASE item.flags = LP_NORMAL -> ItemIdSetNormal(StorageOff(o), 1)
      [] item.flags = LP_REDIRECT -> ItemIdSetRedirect(item.link)
      [] item.flags = LP_DEAD -> ItemIdSetDead
      [] OTHER -> ItemIdSetUnused

AnyPageInit ==
    /\ maxoff \in (AnyPageSlots - 1) .. AnyPageSlots
    /\ \E items \in [1 .. maxoff -> AnyItem] :
          /\ lp = [o \in Offs |-> IF o <= maxoff
                                  THEN AnyItemId(o, items[o])
                                  ELSE ItemIdSetUnused]
          /\ tup = [o \in Offs |-> IF o <= maxoff THEN items[o].tup
                                   ELSE NoTuple]
    /\ pay = [o \in Offs |-> NoPayload]
    /\ pd_prune_xid = 2
    /\ pd_full = FALSE
    /\ xstatus = [x \in Xids |-> IF x <= 2 THEN "committed" ELSE "unused"]
    /\ nextXid = 3
    /\ horizon = 3
    /\ pc = "idle"
    /\ pr = InitPruneState
    /\ ch = InitChain
    /\ hist = InitHist
    /\ codec = NoCodec
    /\ buf = NoBuf
    /\ root_offsets = NoRoots
    /\ pgstat = NoStats

AnyPageNext ==
    \/ PruneBegin(horizon)
    \/ ScanSkip
    \/ ChainHeapOnly
    \/ ChainStart
    \/ \E g \in Garbage : ChainWalk(g)
    \/ ChainTail
    \/ \E g \in Garbage : ChainInterior(g)
    \/ ChainRoot
    \/ ScanDone
    \/ PruneApply
    \/ PruneReturn

AnyPageSpec == AnyPageInit /\ [][AnyPageNext]_vars

\* --------------------------------------------- pages with stale successors
\* A tuple of a page whose successor pointers may be stale: written by the
\* committed transaction 1 or 2, a member that was updated (by the committed
\* transaction 2) or the last version, with a successor pointer to any slot.
StaleTuple ==
    {[NoTuple EXCEPT !.xmin = x, !.xmax = IF f[3] \/ f[4] THEN 2
                                          ELSE InvalidTransactionId,
                     !.ctid = t,
                     !.heap_only = f[1], !.partial_heap_only = f[2],
                     !.hot_updated = f[3], !.phot_updated = f[4]] :
        x \in 1 .. 2, t \in 1 .. AnyPageSlots,
        f \in {<<FALSE, FALSE, TRUE, FALSE>>, <<TRUE, FALSE, TRUE, FALSE>>,
               <<FALSE, TRUE, FALSE, TRUE>>, <<TRUE, FALSE, FALSE, FALSE>>}}

StaleItem ==
    {[flags |-> LP_UNUSED, link |-> 0, tup |-> NoTuple],
     [flags |-> LP_DEAD, link |-> 0, tup |-> NoTuple]}
    \cup {[flags |-> LP_REDIRECT, link |-> t, tup |-> NoTuple] :
            t \in 1 .. AnyPageSlots}
    \cup {[flags |-> LP_NORMAL, link |-> 0, tup |-> t] : t \in StaleTuple}

StaleLinkInit ==
    /\ maxoff = AnyPageSlots
    /\ \E items \in [1 .. maxoff -> StaleItem] :
          /\ lp = [o \in Offs |-> IF o <= maxoff
                                  THEN AnyItemId(o, items[o])
                                  ELSE ItemIdSetUnused]
          /\ tup = [o \in Offs |-> IF o <= maxoff THEN items[o].tup
                                   ELSE NoTuple]
    /\ pay = [o \in Offs |-> NoPayload]
    /\ pd_prune_xid = 2
    /\ pd_full = FALSE
    /\ xstatus = [x \in Xids |-> IF x <= 2 THEN "committed" ELSE "unused"]
    /\ nextXid = 3
    /\ horizon = 3
    /\ pc = "idle"
    /\ pr = InitPruneState
    /\ ch = InitChain
    /\ hist = InitHist
    /\ codec = NoCodec
    /\ buf = NoBuf
    /\ root_offsets = NoRoots
    /\ pgstat = NoStats

StaleLinkSpec == StaleLinkInit /\ [][AnyPageNext]_vars

\* ------------------------------------------------ old_snapshot_threshold
\* TransactionIdLimitedForOldSnapshots, called on demand while the limited
\* horizon is not known: it stores the limit it finds, if it finds one.
\* p.old_snap_limit stands for what the time-to-xid map yields during the pass.
TransactionIdLimitedForOldSnapshots(p) ==
    IF p.old_snap_limit # InvalidTransactionId
    THEN [p EXCEPT !.old_snap_xmin = p.old_snap_limit]
    ELSE p

\* A test that takes every tuple for removable once the limited horizon is
\* relied on.
SatisfiesVacuumDeadOnceUsed(p, t, h) ==
    LET res == HeapTupleSatisfiesVacuumHorizon(t)
    IN IF res # HEAPTUPLE_RECENTLY_DEAD THEN [res |-> res, p |-> p]
       ELSE IF p.old_snap_used \/ GlobalVisTestIsRemovableXid(h, t.xmax)
       THEN [res |-> HEAPTUPLE_DEAD, p |-> p]
       ELSE LET p1 == IF p.old_snap_xmin = InvalidTransactionId
                      THEN TransactionIdLimitedForOldSnapshots(p) ELSE p
            IN IF /\ p1.old_snap_xmin # InvalidTransactionId
                  /\ t.xmax < p1.old_snap_xmin
               THEN [res |-> HEAPTUPLE_DEAD,
                     p |-> [p1 EXCEPT !.old_snap_used = TRUE]]
               ELSE [res |-> res, p |-> p1]

\* heap_prune_satisfies_vacuum with OldSnapshotThresholdActive(): the answer
\* for tuple t and the working state the call leaves behind.
heap_prune_satisfies_vacuum_old_snap(p, t, h) ==
    LET res == HeapTupleSatisfiesVacuumHorizon(t)
        dead_after == t.xmax
        p1 == IF p.old_snap_xmin = InvalidTransactionId
              THEN TransactionIdLimitedForOldSnapshots(p) ELSE p
    IN IF res # HEAPTUPLE_RECENTLY_DEAD THEN [res |-> res, p |-> p]
       ELSE IF p.old_snap_used
       THEN [res |-> IF dead_after < p.old_snap_xmin THEN HEAPTUPLE_DEAD
                     ELSE res,
             p |-> p]
       ELSE IF GlobalVisTestIsRemovableXid(h, dead_after)
       THEN [res |-> HEAPTUPLE_DEAD, p |-> p]
       ELSE IF /\ p1.old_snap_xmin # InvalidTransactionId
               /\ dead_after < p1.old_snap_xmin
       THEN [res |-> HEAPTUPLE_DEAD, p |-> [p1 EXCEPT !.old_snap_used = TRUE]]
       ELSE [res |-> res, p |-> p1]

\* Committed transactions that deleted tuples of the pages these runs start
\* from.
OldSnapXids == 3

\* Tuples written by transaction 1 and updated by one of the committed
\* transactions 1 .. OldSnapXids: roots that were HOT updated and heap-only
\* tuples that were not.
OldSnapTuple ==
    {[NoTuple EXCEPT !.xmin = 1, !.xmax = x, !.ctid = t, !.hot_updated = TRUE] :
        x \in 1 .. OldSnapXids, t \in 1 .. AnyPageSlots}
    \cup {[NoTuple EXCEPT !.xmin = 1, !.xmax = x, !.ctid = 1,
                          !.heap_only = TRUE] : x \in 1 .. OldSnapXids}

OldSnapInit ==
    /\ maxoff = AnyPageSlots
    /\ \E items \in [1 .. AnyPageSlots -> OldSnapTuple] :
          /\ lp = [o \in Offs |-> IF o <= AnyPageSlots
                                  THEN ItemIdSetNormal(StorageOff(o), 1)
                                  ELSE ItemIdSetUnused]
          /\ tup = [o \in Offs |-> IF o <= AnyPageSlots THEN items[o]
                                   ELSE NoTuple]
    /\ pay = [o \in Offs |-> NoPayload]
    /\ pd_prune_xid = 1
    /\ pd_full = FALSE
    /\ xstatus = [x \in Xids |-> IF x <= OldSnapXids THEN "committed"
                                 ELSE "unused"]
    /\ nextXid = OldSnapXids + 1
    /\ horizon = 2
    /\ pc = "idle"
    /\ pr = InitPruneState
    /\ ch = InitChain
    /\ hist = InitHist
    /\ codec = NoCodec
    /\ buf = NoBuf
    /\ root_offsets = NoRoots
    /\ pgstat = NoStats

\* heap_page_prune with the limited horizon the caller has (or has not)
\* determined.
PruneBeginOldSnap(old_snap_xmin, limit) ==
    /\ PruneStartWith(horizon,
                      [InitPruneState EXCEPT !.old_snap_xmin = old_snap_xmin,
                                             !.old_snap_limit = limit])
    /\ UNCHANGED buf

ChainHeapOnlyOldSnap ==
    LET r == heap_prune_satisfies_vacuum_old_snap(pr, tup[pr.offnum], horizon)
    IN ChainHeapOnlyRes(r.res, r.p)

ChainWalkOldSnap(g) ==
    LET r == heap_prune_satisfies_vacuum_old_snap(pr, tup[ch.offnum], horizon)
    IN ChainWalkRes(g, r.res, r.p)

OldSnapNext ==
    \/ \E x, l \in {InvalidTransactionId} \cup ((horizon + 1) .. (OldSnapXids + 1)) :
          PruneBeginOldSnap(x, l)
    \/ ScanSkip
    \/ ChainHeapOnlyOldSnap
    \/ ChainStart
    \/ \E g \in Garbage : ChainWalkOldSnap(g)
    \/ ChainTail
    \/ \E g \in Garbage : ChainInterior(g)
    \/ ChainRoot
    \/ ScanDone
    \/ PruneApply
    \/ PruneReturn

OldSnapSpec == OldSnapInit /\ [][OldSnapNext]_vars

\* ------------------------------- heap_page_prune_opt: the checks before the lock
\* heap_page_prune_opt has not been called; recovery, vis, limited_xmin and low
\* are what the last call found: RecoveryInProgress(), the horizon of vistest,
\* the local limited_xmin, and whether the free space was below the target.
NoGate ==
    [lock |-> "none", pc |-> "out", taken |-> 0, released |-> 0,
     recovery |-> FALSE, vis |-> 0, limited_xmin |-> InvalidTransactionId,
     low |-> FALSE]

\* Checks that take a page for a candidate although recovery is in progress.
OptChecksIgnoreRecovery(rec, prune_xid, h, lim, full) ==
    /\ prune_xid # InvalidTransactionId
    /\ \/ GlobalVisTestIsRemovableXid(h, prune_xid)
       \/ lim # InvalidTransactionId /\ prune_xid < lim
    /\ full

\* The checks of heap_page_prune_opt made without the lock (lines 109-181):
\* not in recovery, the page has a prune hint, the hint is removable under the
\* horizon or precedes the old-snapshot limit lim (InvalidTransactionId when
\* old_snapshot_threshold is off or yields no limit), and the page is full or
\* short of free space.
OptChecksPass(rec, prune_xid, h, lim, full) ==
    /\ ~rec
    /\ prune_xid # InvalidTransactionId
    /\ \/ GlobalVisTestIsRemovableXid(h, prune_xid)
       \/ lim # InvalidTransactionId /\ prune_xid < lim
    /\ full

\* A call of heap_page_prune_opt up to the attempt to lock: it returns at once
\* or goes on to ConditionalLockBufferForCleanup.
OptCall(rec, h, lim, low) ==
    /\ pc = "idle"
    /\ buf.pc = "out"
    /\ rec \in BOOLEAN
    /\ low \in BOOLEAN
    /\ h \in {horizon, HorizonLimit}
    /\ lim \in {InvalidTransactionId} \cup {x \in Xids : x > h /\ x <= nextXid}
    /\ buf' = [buf EXCEPT
                 !.pc = IF OptChecksPass(rec, pd_prune_xid, h, lim,
                                         pd_full \/ low)
                        THEN "trylock" ELSE "out",
                 !.taken = 0, !.released = 0,
                 !.recovery = rec, !.vis = h, !.low = low,
                 \* TransactionIdLimitedForOldSnapshots is asked only when
                 \* the hint is not removable under the horizon
                 !.limited_xmin =
                    IF /\ ~rec
                       /\ pd_prune_xid # InvalidTransactionId
                       /\ ~GlobalVisTestIsRemovableXid(h, pd_prune_xid)
                    THEN lim ELSE InvalidTransactionId]
    /\ UNCHANGED <<page, xstatus, nextXid, horizon, pc, pr, ch, hist, codec,
                   root_offsets, pgstat>>

\* The recheck under the lock (lines 192-201): heap_page_prune is called with
\* vistest and limited_xmin if the page is full or short of free space, and
\* else the lock is released without a pass.
OptRecheck(low) ==
    /\ buf.pc = "recheck"
    /\ low \in BOOLEAN
    /\ IF pd_full \/ low
       THEN /\ PruneStartWith(buf.vis,
                    [InitPruneState EXCEPT
                        !.old_snap_xmin = buf.limited_xmin,
                        !.old_snap_limit = buf.limited_xmin])
            /\ buf' = [buf EXCEPT !.pc = "pruning", !.low = low]
       ELSE /\ buf' = [buf EXCEPT !.pc = "unlock", !.low = low]
            /\ UNCHANGED <<page, xstatus, nextXid, horizon, pc, pr, ch, hist,
                           codec, root_offsets, pgstat>>

GateInit ==
    /\ PageInit
    /\ codec = NoCodec
    /\ buf = NoGate
    /\ root_offsets = NoRoots
    /\ pgstat = NoStats

GateNext ==
    \/ \E i \in Offs : \E nv \in WholeVals(tup[i].vals) :
          /\ nextXid <= MaxXid
          /\ buf.lock # "self"
          /\ heap_update(i, nv)
    \/ \E x \in Xids : \E o \in {"committed", "aborted"} : XactEnd(x, o)
    \/ \E rec, low \in BOOLEAN : \E h, lim \in 0 .. (MaxXid + 1) :
          OptCall(rec, h, lim, low)
    \/ OptLockFail
    \/ OptLock
    \/ \E low \in BOOLEAN : OptRecheck(low)
    \/ OptUnlock
    \/ OtherLock
    \/ OtherUnlock
    \/ ScanSkip
    \/ ChainHeapOnlyOldSnap
    \/ ChainStart
    \/ \E g \in Garbage : ChainWalkOldSnap(g)
    \/ ChainTail
    \/ \E g \in Garbage : ChainInterior(g)
    \/ ChainRoot
    \/ ScanDone
    \/ PruneApply
    \/ PruneReturn

GateSpec == GateInit /\ [][GateNext]_vars

\* ------------------------------------------- one chain stored in two orders
\* The slot that mirrors slot s on a page of MaxOff line pointers.
Mirror(s) == MaxOff + 1 - s

\* A chain of two items stored at slots r (the root) and m: the root is a
\* plain redirect to m or a tuple of transaction 1 that transaction 2
\* (committed) or 3 (aborted) updated, HOT or partial HOT; the member is the
\* heap-only or partial heap-only version that transaction wrote, which is
\* the last version, or was deleted by the committed transaction 2 or 3.
MirrorRoot(m) ==
    {[flags |-> LP_REDIRECT, link |-> m, tup |-> NoTuple]}
    \cup {[flags |-> LP_NORMAL, link |-> 0,
           tup |-> [NoTuple EXCEPT !.xmin = 1, !.xmax = x, !.ctid = m,
                                   !.hot_updated = ~f, !.phot_updated = f]] :
            x \in 2 .. 3, f \in BOOLEAN}

MirrorMember(m) ==
    {[flags |-> LP_NORMAL, link |-> 0,
      tup |-> [NoTuple EXCEPT !.xmin = x, !.xmax = d, !.ctid = m,
                              !.heap_only = ~f, !.partial_heap_only = f]] :
        x \in 2 .. 3, d \in {InvalidTransactionId, 2}, f \in BOOLEAN}

\* The item at slot s with its slot numbers mirrored.
MirrorItem(item) ==
    [item EXCEPT !.link = IF @ = 0 THEN 0 ELSE Mirror(@),
                 !.tup = IF item.flags = LP_NORMAL
                         THEN [@ EXCEPT !.ctid = Mirror(@)] ELSE @]

\* The chain stands at slots 1 (root) and 2, and once more at the mirrored
\* slots, where the scan of the page meets the member before the root.
MirrorInit ==
    /\ maxoff = MaxOff
    /\ \E root \in MirrorRoot(2), member \in MirrorMember(2) :
          LET items == [o \in Offs |->
                          CASE o = 1 -> root
                            [] o = 2 -> member
                            [] o = Mirror(1) -> MirrorItem(root)
                            [] o = Mirror(2) -> MirrorItem(member)
                            [] OTHER -> [flags |-> LP_UNUSED, link |-> 0,
                                         tup |-> NoTuple]]
          IN /\ lp = [o \in Offs |-> AnyItemId(o, items[o])]
             /\ tup = [o \in Offs |-> items[o].tup]
    /\ pay = [o \in Offs |-> NoPayload]
    /\ pd_prune_xid = 2
    /\ pd_full = FALSE
    /\ xstatus = [x \in Xids |-> IF x <= 2 THEN "committed"
                                 ELSE IF x = 3 THEN "aborted" ELSE "unused"]
    /\ nextXid = 4
    /\ horizon = 4
    /\ pc = "idle"
    /\ pr = InitPruneState
    /\ ch = InitChain
    /\ hist = InitHist
    /\ codec = NoCodec
    /\ buf = NoBuf
    /\ root_offsets = NoRoots
    /\ pgstat = NoStats

\* One pass over such a page.  A chain of two items has no member between
\* its root and its last item, so the loop of lines 805-929 makes no step.
MirrorNext ==
    \/ PruneBegin(horizon)
    \/ ScanSkip
    \/ ChainHeapOnly
    \/ ChainStart
    \/ \E g \in Garbage : ChainWalk(g)
    \/ ChainTail
    \/ ChainRoot
    \/ ScanDone
    \/ PruneApply
    \/ PruneReturn

MirrorSpec == MirrorInit /\ [][MirrorNext]_vars

\* ------------------------------------------------ the regression scripts
\* Indexes of the tables the scripts create, and updates run against a table.
MaxIndexes == 3
MaxUpdates == 5

\* heap_hot_updates.sql: the UPDATE statements that are followed by a look at
\* the table's HOT update counter.  line is the line of that look, nindexes
\* the number of indexes of the table, changed the number of them whose value
\* the update changes, counted whether the script expects the counter to have
\* gone up by one.
HotUpdateChecks ==
    {[line |-> 25, nindexes |-> 2, changed |-> 0, counted |-> TRUE],
     [line |-> 29, nindexes |-> 2, changed |-> 1, counted |-> FALSE],
     [line |-> 33, nindexes |-> 2, changed |-> 0, counted |-> TRUE],
     [line |-> 53, nindexes |-> 3, changed |-> 1, counted |-> FALSE],
     [line |-> 76, nindexes |-> 2, changed |-> 0, counted |-> TRUE],
     [line |-> 85, nindexes |-> 2, changed |-> 1, counted |-> FALSE],
     [line |-> 93, nindexes |-> 2, changed |-> 1, counted |-> FALSE],
     [line |-> 98, nindexes |-> 2, changed |-> 2, counted |-> FALSE],
     [line |-> 107, nindexes |-> 2, changed |-> 1, counted |-> FALSE],
     [line |-> 554, nindexes |-> 0, changed |-> 0, counted |-> FALSE],
     [line |-> 561, nindexes |-> 1, changed |-> 0, counted |-> TRUE],
     [line |-> 618, nindexes |-> 2, changed |-> 1, counted |-> TRUE],
     [line |-> 652, nindexes |-> 3, changed |-> 1, counted |-> TRUE],
     [line |-> 657, nindexes |-> 3, changed |-> 2, counted |-> TRUE],
     [line |-> 662, nindexes |-> 3, changed |-> 3, counted |-> FALSE],
     [line |-> 680, nindexes |-> 2, changed |-> 0, counted |-> TRUE],
     [line |-> 696, nindexes |-> 2, changed |-> 1, counted |-> TRUE],
     [line |-> 706, nindexes |-> 2, changed |-> 1, counted |-> TRUE],
     [line |-> 712, nindexes |-> 2, changed |-> 2, counted |-> FALSE],
     [line |-> 723, nindexes |-> 2, changed |-> 1, counted |-> TRUE],
     [line |-> 748, nindexes |-> 2, changed |-> 1, counted |-> FALSE]}

\* heap_update as the glossary has it: HOT when no index changes, partial HOT
\* when some but not all do; both go into the HOT update counter.
UseHotUpdate(nindexes, changed) == changed < nindexes

\* What pgstat_count_heap_update is told for an update that changes the value
\* of `changed` of the table's `nindexes` indexes: what the scripts expect
\* of such an update, where they have one.
HotUpdateCounted(nindexes, changed) ==
    LET cs == {c \in HotUpdateChecks :
                  c.nindexes = nindexes /\ c.changed = changed}
    IN IF cs # {} THEN {c.counted : c \in cs}
       ELSE {UseHotUpdate(nindexes, changed)}

RegressInit ==
    /\ PageInit
    /\ codec = NoCodec
    /\ buf = NoBuf
    /\ root_offsets = NoRoots
    /\ \E n \in 0 .. MaxIndexes : pgstat = [NoStats EXCEPT !.nindexes = n]

\* One UPDATE of a script, which changes `changed` of the indexes.
RegressUpdate(changed) ==
    /\ pgstat.t_tuples_updated < MaxUpdates
    /\ changed \in 0 .. pgstat.nindexes
    /\ \E counted \in HotUpdateCounted(pgstat.nindexes, changed) :
          pgstat' = [pgstat EXCEPT
                        !.changed = changed,
                        !.counted = counted,
                        !.t_tuples_updated = @ + 1,
                        !.t_tuples_hot_updated =
                            IF counted THEN @ + 1 ELSE @]
    /\ UNCHANGED <<page, xstatus, nextXid, horizon, pc, pr, ch, hist, codec,
                   buf, root_offsets>>

RegressNext == \E changed \in 0 .. MaxIndexes : RegressUpdate(changed)

RegressSpec == RegressInit /\ [][RegressNext]_vars

\* ------------------------------------------ the codec taken on its own
\* heap_prune_record_redirect_with_data stores a bitmap over the attributes
\* 1 .. natts; GetModifiedColumnsBitmap later reads it back from the bytes.
MaxCodecNatts == 8

CodecInit ==
    /\ PageInit
    /\ \E n \in 1 .. MaxCodecNatts : \E B \in SUBSET (1 .. n) :
          codec = [NoCodec EXCEPT
                     !.pc = "input", !.natts = n,
                     !.data = {a - FirstLowInvalidHeapAttributeNumber : a \in B}]
    /\ buf = NoBuf
    /\ root_offsets = NoRoots
    /\ pgstat = NoStats

CodecStore ==
    /\ codec.pc = "input"
    /\ codec' = [codec EXCEPT
                    !.pc = "stored",
                    !.payload = StoreModifiedColumnsBitmap(codec.data, codec.natts)]
    /\ UNCHANGED <<page, xstatus, nextXid, horizon, pc, pr, ch, hist, buf,
                   root_offsets, pgstat>>

CodecDecode ==
    /\ codec.pc = "stored"
    /\ codec' = [codec EXCEPT
                    !.pc = "decoded",
                    !.out = DecodeRedirectData(codec.payload)
                                \cap AllAttrs(codec.natts)]
    /\ UNCHANGED <<page, xstatus, nextXid, horizon, pc, pr, ch, hist, buf,
                   root_offsets, pgstat>>

CodecNext == CodecStore \/ CodecDecode

CodecSpec == CodecInit /\ [][CodecNext]_vars

\* ------------------------------------------------------------ properties
SeqRange(s) == {s[k] : k \in 1 .. Len(s)}

\* Slots the plan of the running pass will change.
Subjects(p) ==
    {e.from : e \in SeqRange(p.redirected)}
        \cup {e.from : e \in SeqRange(p.redirected_data)}
        \cup SeqRange(p.nowdead) \cup SeqRange(p.nowunused)

InPass == pc \in {"scan", "walk", "tail", "interior", "apply"}

\* The members that follow slot o in its update chain, on the page as it was
\* when the pass began.
RECURSIVE PreSucc(_, _)
PreSucc(o, n) ==
    LET t == hist.pre_tup[o]
        m == t.ctid
    IN IF n = 0 \/ ~ItemIdIsNormal(hist.pre_lp[o]) THEN {}
       ELSE IF ~(HeapTupleHeaderIsHotUpdated(t)
                    \/ HeapTupleHeaderIsPartialHotUpdated(t)) THEN {}
       ELSE IF m \notin 1 .. maxoff \/ ~ItemIdIsNormal(hist.pre_lp[m]) THEN {}
       ELSE IF hist.pre_tup[m].xmin # t.xmax THEN {}
       ELSE {m} \cup PreSucc(m, n - 1)

NotDeadClass ==
    {HEAPTUPLE_LIVE, HEAPTUPLE_RECENTLY_DEAD, HEAPTUPLE_INSERT_IN_PROGRESS,
     HEAPTUPLE_DELETE_IN_PROGRESS}

KeptAsBefore(m) == lp[m] = hist.pre_lp[m] /\ tup[m] = hist.pre_tup[m]

RECURSIVE PreTail(_, _, _)
PreTail(o, prior, n) ==
    IF n = 0 \/ o < 1 \/ o > maxoff THEN 0
    ELSE LET id == hist.pre_lp[o]
             t == hist.pre_tup[o]
         IN IF ItemIdIsRedirected(id) THEN PreTail(id.off, prior, n - 1)
            ELSE IF ~ItemIdIsNormal(id) THEN 0
            ELSE IF prior # InvalidTransactionId /\ t.xmin # prior THEN 0
            ELSE IF hist.cls[o] \in NotDeadClass THEN o
            ELSE IF HeapTupleHeaderIsHotUpdated(t)
                        \/ HeapTupleHeaderIsPartialHotUpdated(t)
            THEN PreTail(t.ctid, t.xmax, n - 1)
            ELSE 0

\* Slot o was the root of a chain when the pass began: a tuple that is neither
\* heap-only nor partial heap-only, or a redirect no other redirect leads to.
IsEntry(o) ==
    \/ /\ ItemIdIsRedirected(hist.pre_lp[o])
       /\ \A q \in 1 .. maxoff :
            ItemIdIsRedirected(hist.pre_lp[q]) => hist.pre_lp[q].off # o
    \/ /\ ItemIdIsNormal(hist.pre_lp[o])
       /\ ~hist.pre_tup[o].heap_only
       /\ ~hist.pre_tup[o].partial_heap_only

Redir(o) == o \in 1 .. maxoff /\ ItemIdIsRedirected(lp[o])

\* Slot t is reached from slot o directly, or over at most one further
\* redirect.
PostReach(o, t) ==
    \/ o = t /\ ItemIdIsNormal(lp[o])
    \/ /\ Redir(o)
       /\ \/ lp[o].off = t
          \/ Redir(lp[o].off) /\ lp[lp[o].off].off = t

\* C2: once a pass is applied, the redirects from the root of every chain
\* whose tail was not classified HEAPTUPLE_DEAD lead to that tail, over at
\* most one key redirect in between.
RootReachesTail ==
    pc = "done" =>
        \A o \in 1 .. maxoff :
            IsEntry(o) /\ PreTail(o, 0, MaxOff + 1) # 0 =>
                PostReach(o, PreTail(o, 0, MaxOff + 1))

\* C3: every redirect on the page, with or without data, targets a slot inside
\* the page's slot range that is LP_NORMAL or LP_REDIRECT.
RedirectTargetsUsable ==
    \A o \in 1 .. maxoff :
        ItemIdIsRedirected(lp[o]) =>
            /\ ItemIdGetRedirect(lp[o]) \in 1 .. maxoff
            /\ lp[ItemIdGetRedirect(lp[o])].flags \in {LP_NORMAL, LP_REDIRECT}

\* C4: within a pass no record operation is handed a subject slot or a
\* redirect target that is already marked, and no array of the plan holds
\* more than MaxHeapTuplesPerPage entries.
PlanEntersSlotOnce ==
    /\ ~pr.remarked
    /\ ~pr.overfull
    /\ Len(pr.redirected) <= MaxHeapTuplesPerPage
    /\ Len(pr.redirected_data) <= MaxHeapTuplesPerPage
    /\ Len(pr.nowdead) <= MaxHeapTuplesPerPage
    /\ Len(pr.nowunused) <= MaxHeapTuplesPerPage

\* C5: between the start of a pass and its apply step no slot changes and the
\* prune hint and the page-full flag keep their values; the page changes only
\* in the step from apply to done, which carries out the whole plan.
PageChangesOnlyInApply ==
    [][pc # "idle" /\ page' # page =>
            /\ pc = "apply" /\ pc' = "done"
            /\ lp' = PageRepairFragmentation(heap_page_prune_execute(pr)).lp
            /\ lp = hist.pre_lp
            /\ pd_prune_xid = hist.pre_prune_xid
            /\ pd_full = hist.pre_full]_vars

\* A scan has planned a redirect with data and an unused slot while the page
\* is still as it was when the pass began.
PageChangesOnlyInApplyWitness ==
    /\ pc = "apply"
    /\ Len(pr.redirected_data) > 0
    /\ Len(pr.nowunused) > 0
    /\ pr.new_prune_xid # pd_prune_xid
    /\ lp = hist.pre_lp

\* C6: a pass that starts right after another pass returned, with the same
\* horizon and no change to the page or to any transaction in between, plans
\* no transition and returns 0.
SecondPassPlansNothing ==
    pc = "apply" /\ hist.second => PlanIsEmpty(pr) /\ pr.ndeleted = 0

\* C7: for every column count N and every set B of column numbers, reading
\* back the payload that StoreModifiedColumnsBitmap(B, N) wrote, against an
\* interesting set that contains B, gives B.
StoreDecodeRoundTrip ==
    codec.pc = "decoded" => codec.out = codec.data

\* A chain the pass has collapsed: it found a dead member and the chain has
\* two or more items.
Collapsed(c) == c.latestdead # InvalidOffsetNumber /\ Len(c.chainitems) >= 2
TailOf(c) == c.chainitems[Len(c.chainitems)]
AllDead(c) ==
    \A m \in SeqRange(c.chainitems) :
        ItemIdIsNormal(lp[m]) => hist.cls[m] = HEAPTUPLE_DEAD
TailLive(c) ==
    ItemIdIsNormal(lp[TailOf(c)]) /\ hist.cls[TailOf(c)] \in NotDeadClass

\* C8: the root of a collapsed chain is planned dead exactly if every member
\* was classified HEAPTUPLE_DEAD; with a tail that is not dead it is planned
\* as a plain redirect to the tail if no key was established, and else as a
\* redirect with data to the key established last.
RootPlanFollowsChain ==
    InPass =>
        \A k \in 1 .. Len(hist.done) :
            LET c == hist.done[k]
            IN Collapsed(c) =>
                /\ c.rootoffnum \in SeqRange(pr.nowdead) <=> AllDead(c)
                /\ TailLive(c) =>
                     IF c.keyitems = << >>
                     THEN [from |-> c.rootoffnum, to |-> TailOf(c)]
                              \in SeqRange(pr.redirected)
                     ELSE \E e \in SeqRange(pr.redirected_data) :
                              /\ e.from = c.rootoffnum
                              /\ e.to = c.keyitems[Len(c.keyitems)]

\* C10: the payload planned for a root that becomes a redirect with data is
\* the union of the modified-column bitmaps of all keys established in the
\* chain.
RootPayloadIsUnion ==
    InPass =>
        \A k \in 1 .. Len(hist.done) :
            \A e \in SeqRange(pr.redirected_data) :
                e.from = hist.done[k].rootoffnum /\ Collapsed(hist.done[k]) =>
                    DecodeRedirectData(e.data) = hist.done[k].modified_attrs

\* Columns whose values differ between the versions at slots a and b when the
\* pass began.
PreChanged(a, b) ==
    {c \in Cols : hist.pre_tup[a].vals[c] # hist.pre_tup[b].vals[c]}

\* Slot b held the version that the update of the version at slot a created.
PreNext(a, b) ==
    /\ ItemIdIsNormal(hist.pre_lp[a]) /\ ItemIdIsNormal(hist.pre_lp[b])
    /\ hist.pre_tup[a].ctid = b
    /\ hist.pre_tup[a].xmax = hist.pre_tup[b].xmin
    /\ \/ HeapTupleHeaderIsHotUpdated(hist.pre_tup[a])
       \/ HeapTupleHeaderIsPartialHotUpdated(hist.pre_tup[a])

\* Four versions at slots a, b, c, d: the first update changed only the
\* indexed column 1, the second only the indexed column 2, the third no
\* indexed column; the first three versions are dead, the fourth is not.
ScenarioB(a, b, c, d) ==
    /\ ~hist.pre_tup[a].heap_only /\ ~hist.pre_tup[a].partial_heap_only
    /\ PreNext(a, b) /\ PreNext(b, c) /\ PreNext(c, d)
    /\ PreChanged(a, b) = {1}
    /\ PreChanged(b, c) = {2}
    /\ PreChanged(c, d) \cap IndexedCols = {}
    /\ hist.cls[a] = HEAPTUPLE_DEAD
    /\ hist.cls[b] = HEAPTUPLE_DEAD
    /\ hist.cls[c] = HEAPTUPLE_DEAD
    /\ hist.cls[d] \in NotDeadClass

\* C9: a pass creates one key redirect for each run of updates that changed
\* the same indexed columns, not one for each dead member: applied to the
\* four versions of ScenarioB it leaves exactly two key redirects among the
\* members that follow the root.
TwoKeysForTwoEpochs ==
    pc = "done" =>
        \A a, b, c, d \in 1 .. maxoff :
            ScenarioB(a, b, c, d) =>
                Cardinality({m \in {b, c, d} : ItemIdIsRedirected(lp[m])}) = 2

\* The interesting-column set was never built for chain c: every call of
\* GetModifiedColumnsBitmap made for it was handed the empty (NULL) set.
EmptyInteresting(c) == c.interesting_null

\* C11: a chain whose interesting-column set is empty is never planned with a
\* redirect that carries data; its root is planned dead or as a plain
\* redirect, whatever the partial flags of its members.
EmptyInterestingNoPayload ==
    InPass =>
        \A k \in 1 .. Len(hist.done) :
            LET c == hist.done[k]
            IN Collapsed(c) /\ EmptyInteresting(c) =>
                /\ \A e \in SeqRange(pr.redirected_data) :
                        e.from # c.rootoffnum
                /\ \/ c.rootoffnum \in SeqRange(pr.nowdead)
                   \/ \E e \in SeqRange(pr.redirected) :
                        e.from = c.rootoffnum

\* No member of chain c is partial: its tuples carry neither partial flag and
\* its redirects carry no data.
NoPartialMember(c) ==
    \A m \in SeqRange(c.chainitems) :
        IF ItemIdIsNormal(lp[m])
        THEN ~tup[m].partial_heap_only /\ ~tup[m].phot_updated
        ELSE ItemIdIsRedirected(lp[m]) /\ lp[m].len = 0

\* C12: for a chain without partial members whose dead prefix ends at a live
\* tail, the root is planned as a plain redirect to the tail, every interior
\* member unused, and no redirect with data or key redirect is planned; the
\* tail is the only slot of the chain the plan leaves alone.
PlainChainCollapses ==
    InPass =>
        \A k \in 1 .. Len(hist.done) :
            LET c == hist.done[k]
                n == Len(c.chainitems)
                members == SeqRange(c.chainitems)
            IN Collapsed(c) /\ TailLive(c) /\ NoPartialMember(c) =>
                /\ [from |-> c.rootoffnum, to |-> TailOf(c)]
                        \in SeqRange(pr.redirected)
                /\ \A j \in 2 .. (n - 1) :
                        c.chainitems[j] \in SeqRange(pr.nowunused)
                /\ c.keyitems = << >>
                /\ \A e \in SeqRange(pr.redirected_data) : e.from \notin members
                /\ \A e \in SeqRange(pr.redirected) :
                        e.from \in members => e.from = c.rootoffnum
                /\ c.rootoffnum \notin SeqRange(pr.nowdead)
                /\ TailOf(c) \notin Subjects(pr)

PlainChainCollapsesWitness ==
    /\ pc = "apply"
    /\ \E k \in 1 .. Len(hist.done) :
        LET c == hist.done[k]
        IN /\ Collapsed(c) /\ TailLive(c) /\ NoPartialMember(c)
           /\ Len(c.chainitems) >= 3
           /\ ItemIdIsNormal(lp[c.rootoffnum])
           /\ c.chainitems[2] \in SeqRange(pr.nowunused)

\* Every member of chain c that is a tuple was classified HEAPTUPLE_DEAD, the
\* tail included, and the chain has two or more members.
FullyDead(c) ==
    /\ Len(c.chainitems) >= 2
    /\ c.latestdead = TailOf(c)
    /\ AllDead(c)

\* The tail of chain c is itself partial, as phot_items records it.
TailPartial(c) ==
    LET t == tup[TailOf(c)]
    IN \/ HeapTupleHeaderIsPartialHeapOnly(t)
       \/ ~HeapTupleHeaderIsHeapOnly(t) /\ HeapTupleHeaderIsPartialHotUpdated(t)

\* C13 as stated: in a chain of two or more members that are all dead, the
\* tail is planned dead if any member of the chain is partial, and unused
\* only if no member is.
DeadTailFollowsAnyPartial ==
    InPass =>
        \A k \in 1 .. Len(hist.done) :
            LET c == hist.done[k]
            IN FullyDead(c) =>
                /\ ~NoPartialMember(c) => TailOf(c) \in SeqRange(pr.nowdead)
                /\ TailOf(c) \in SeqRange(pr.nowunused) => NoPartialMember(c)

\* C13, amended: in a chain of two or more members that are all dead, the
\* tail is planned dead exactly if the tail itself is partial, and unused
\* exactly if it is not, whatever the flags of the other members.
DeadTailFollowsOwnFlag ==
    InPass =>
        \A k \in 1 .. Len(hist.done) :
            LET c == hist.done[k]
            IN FullyDead(c) =>
                /\ TailOf(c) \in SeqRange(pr.nowdead) <=> TailPartial(c)
                /\ TailOf(c) \in SeqRange(pr.nowunused) <=> ~TailPartial(c)

DeadTailFollowsOwnFlagWitness ==
    /\ pc = "apply"
    /\ \E k \in 1 .. Len(hist.done) :
        LET c == hist.done[k]
        IN /\ FullyDead(c)
           /\ ~NoPartialMember(c)
           /\ ~TailPartial(c)
           /\ TailOf(c) \in SeqRange(pr.nowunused)

\* Chain c had three members when the pass began, all of them tuples that
\* carry no partial flag and were classified HEAPTUPLE_DEAD.
PlainDeadThree(c) ==
    /\ Len(c.chainitems) = 3
    /\ c.latestdead = TailOf(c)
    /\ \A m \in SeqRange(c.chainitems) :
        /\ ItemIdIsNormal(hist.pre_lp[m])
        /\ hist.cls[m] = HEAPTUPLE_DEAD
        /\ ~hist.pre_tup[m].partial_heap_only
        /\ ~hist.pre_tup[m].phot_updated

\* C14 as stated: for a fully dead chain of three members none of which is
\* partial, the tail and the root are both planned unused, and the pass
\* leaves no member of the chain in normal state.
PlainDeadChainAllUnused ==
    pc \in {"apply", "done"} =>
        \A k \in 1 .. Len(hist.done) :
            LET c == hist.done[k]
            IN PlainDeadThree(c) =>
                /\ TailOf(c) \in SeqRange(pr.nowunused)
                /\ c.rootoffnum \in SeqRange(pr.nowunused)
                /\ pc = "done" =>
                     \A m \in SeqRange(c.chainitems) : ~ItemIdIsNormal(lp[m])

\* C14, amended: for a fully dead chain of three members none of which is
\* partial, the tail and the interior member are planned unused and the root
\* is planned dead, and the pass leaves no member of the chain in normal
\* state.
PlainDeadChainRootDead ==
    pc \in {"apply", "done"} =>
        \A k \in 1 .. Len(hist.done) :
            LET c == hist.done[k]
            IN PlainDeadThree(c) =>
                /\ TailOf(c) \in SeqRange(pr.nowunused)
                /\ c.chainitems[2] \in SeqRange(pr.nowunused)
                /\ c.rootoffnum \in SeqRange(pr.nowdead)
                /\ c.rootoffnum \notin SeqRange(pr.nowunused)
                /\ pc = "done" =>
                     /\ ItemIdIsDead(lp[c.rootoffnum])
                     /\ \A m \in SeqRange(c.chainitems) : ~ItemIdIsNormal(lp[m])

PlainDeadChainRootDeadWitness ==
    /\ pc = "done"
    /\ \E k \in 1 .. Len(hist.done) :
        /\ PlainDeadThree(hist.done[k])
        /\ ItemIdIsDead(lp[hist.done[k].rootoffnum])
        /\ ~ItemIdIsUsed(lp[TailOf(hist.done[k])])

\* C15: the count heap_page_prune returns is the number of slots that held a
\* tuple when the pass began and that the plan changes; each is counted once
\* and slots that were redirects are not counted.
CountIsPlannedTuples ==
    pc = "apply" =>
        pr.ndeleted =
            Cardinality({o \in Subjects(pr) : ItemIdIsNormal(hist.pre_lp[o])})

CountIsPlannedTuplesWitness ==
    /\ pc = "apply"
    /\ pr.ndeleted >= 2
    /\ \E o \in Subjects(pr) : ItemIdIsRedirected(hist.pre_lp[o])

\* Update-transaction ids of the tuples the running pass classified recently
\* dead or delete-in-progress.
SoonPrunableXids ==
    {HeapTupleHeaderGetUpdateXid(hist.pre_tup[o]) :
        o \in {m \in Offs : hist.cls[m] \in {HEAPTUPLE_RECENTLY_DEAD,
                                             HEAPTUPLE_DELETE_IN_PROGRESS}}}

\* C16: when a pass returns, the prune hint of the page is the lowest update
\* transaction id among the members classified recently dead or
\* delete-in-progress, or the invalid id if there is none, and the page-full
\* flag is clear, whether or not the plan changed any slot.
HintIsLowestSoonPrunable ==
    pc = "done" =>
        /\ ~pd_full
        /\ IF SoonPrunableXids = {}
           THEN pd_prune_xid = InvalidTransactionId
           ELSE /\ pd_prune_xid \in SoonPrunableXids
                /\ \A x \in SoonPrunableXids : pd_prune_xid <= x

HintIsLowestSoonPrunableWitness ==
    /\ pc = "done"
    /\ PlanIsEmpty(pr)
    /\ hist.pre_full
    /\ SoonPrunableXids # {}

\* Slot o starts a chain on the page as it is: a tuple that is neither
\* heap-only nor partial heap-only, or a redirect no other redirect leads to.
IsRootSlot(o) ==
    \/ /\ ItemIdIsRedirected(lp[o])
       /\ \A q \in 1 .. maxoff : ItemIdIsRedirected(lp[q]) => lp[q].off # o
    \/ /\ ItemIdIsNormal(lp[o])
       /\ ~tup[o].heap_only
       /\ ~tup[o].partial_heap_only

\* The slots holding a tuple of the chain that is entered at slot o: redirects
\* are followed wherever they stand, tuples to their HOT or partial HOT
\* successor.
RECURSIVE ChainTuples(_, _, _)
ChainTuples(o, prior, n) ==
    IF n = 0 \/ o \notin 1 .. maxoff THEN {}
    ELSE IF ItemIdIsRedirected(lp[o])
    THEN ChainTuples(lp[o].off, InvalidTransactionId, n - 1)
    ELSE IF ~ItemIdIsNormal(lp[o]) THEN {}
    ELSE IF prior # InvalidTransactionId /\ tup[o].xmin # prior THEN {}
    ELSE {o} \cup
         IF HeapTupleHeaderIsHotUpdated(tup[o])
                \/ HeapTupleHeaderIsPartialHotUpdated(tup[o])
         THEN ChainTuples(tup[o].ctid, tup[o].xmax, n - 1)
         ELSE {}

\* C17: heap_get_root_tuples maps every slot that holds a tuple of a chain to
\* the root slot of the chain, be the root a tuple, a plain redirect or a
\* redirect with data that reaches the tuples over a key redirect; slots that
\* are unused, dead or redirects are mapped to InvalidOffsetNumber.
RootsOfChains ==
    root_offsets.pc = "done" =>
        /\ \A r \in 1 .. maxoff :
            IsRootSlot(r) =>
                \A t \in ChainTuples(r, InvalidTransactionId, MaxOff + 1) :
                    root_offsets.out[t] = r
        /\ \A o \in Offs :
            ~ItemIdIsNormal(lp[o]) =>
                root_offsets.out[o] = InvalidOffsetNumber

\* C18: heap_page_prune_opt runs a pass only while it holds the cleanup lock,
\* which it takes only when nobody else holds the buffer; if the lock is not
\* to be had it returns with the page unchanged; and whenever it returns it
\* has released the lock as often as it took it, at most once, and does not
\* hold it.
PruneOnlyUnderLock ==
    [][/\ pc' # "idle" => buf'.lock = "self"
       /\ (buf.lock # "self" /\ buf'.lock = "self") => buf.lock = "none"
       /\ (buf.pc = "trylock" /\ buf.lock # "none" /\ buf'.pc # "trylock") =>
             /\ buf'.pc = "out"
             /\ buf'.taken = 0
             /\ UNCHANGED page
       /\ (buf.pc # "out" /\ buf'.pc = "out") =>
             /\ buf'.released = buf'.taken
             /\ buf'.taken <= 1
             /\ buf'.lock # "self"]_vars

PruneOnlyUnderLockWitness ==
    /\ buf.pc = "out"
    /\ buf.taken = 1
    /\ buf.released = 1
    /\ buf.lock = "none"
    /\ hist.fresh
    /\ \E o \in 1 .. maxoff : ItemIdIsDead(lp[o]) \/ ItemIdIsRedirected(lp[o])

\* C19: whatever the page holds, cycles of redirects or of successor pointers
\* included, the walk of a chain takes no more steps than the page has slots:
\* it never has more members on record than that, and it comes to an end.
WalkWithinSlotCount ==
    /\ Len(ch.chainitems) <= maxoff
    /\ pc # "overrun"

\* C20: a walk never stores a member behind the MaxHeapTuplesPerPage elements
\* of chainitems and phot_items; a chain that would be longer ends the pass
\* with an error before the store.
WalkWithinArrays ==
    /\ Len(ch.chainitems) <= MaxHeapTuplesPerPage
    /\ ~ch.overrun

\* ------------------------------------------------- a pointer off the page
\* C21 as stated: when a walk of the pass has met a redirect target or a
\* successor pointer outside 1 .. maxoff, the pass is aborted and the page
\* keeps the line pointers, tuples and payloads it had when the pass began.
OutsidePointerAbortsPass ==
    hist.outside /\ pc \in {"apply", "done"}
        => /\ pc # "done"
           /\ lp = hist.pre_lp /\ tup = hist.pre_tup

\* C21, amended: a pointer outside 1 .. maxoff only ends the walk that met it,
\* without an error and without a new chain member or plan entry.  The pass is
\* not aborted on that account: when it comes to its apply step with a plan,
\* the line pointers are changed as the plan says.
OutsidePointerEndsWalkOnly ==
    [][/\ pc = "walk" /\ (ch.offnum < FirstOffsetNumber \/ ch.offnum > maxoff)
            => pc' = "tail" /\ ch' = ch /\ pr' = pr
       /\ pc = "apply" /\ hist.outside /\ ~PlanIsEmpty(pr)
            => /\ pc' = "done"
               /\ lp' # lp
               /\ \A o \in SeqRange(pr.nowunused) : ~ItemIdIsUsed(lp'[o])
               /\ \A o \in SeqRange(pr.nowdead) \ SeqRange(pr.nowunused) :
                      ItemIdIsDead(lp'[o])]_vars

OutsidePointerEndsWalkOnlyWitness ==
    /\ pc = "done"
    /\ hist.outside
    /\ ~PlanIsEmpty(pr)
    /\ \E o \in 1 .. maxoff : ItemIdIsDead(lp[o]) /\ ~ItemIdIsDead(hist.pre_lp[o])

\* -------------------------------------------- an answer outside the contract
\* The page as the running pass found it.
PageAsBefore ==
    /\ lp = hist.pre_lp
    /\ tup = hist.pre_tup
    /\ pd_prune_xid = hist.pre_prune_xid
    /\ pd_full = hist.pre_full

\* C22: once the visibility routines have answered with a value outside the
\* five of HTSV_Result for any tuple of the pass, the pass has raised an error,
\* and every slot, the prune hint and the page-full flag are as they were
\* before the pass.
UnexpectedAnswerRaisesError ==
    (\E o \in Offs : hist.cls[o] = HEAPTUPLE_UNEXPECTED)
        => pc = "error" /\ PageAsBefore

\* ------------------------------------------------------- the logged record
\* C23: what the pass hands to log_heap_clean is what it applies, so that
\* heap_page_prune_execute run on the pre-pass page with the logged record
\* leaves the line pointers that the apply step leaves.
ReplayGivesAppliedPage ==
    [][pc = "apply" /\ ~PlanIsEmpty(pr)
        => lp' = PageRepairFragmentation(
                    heap_page_prune_execute(log_heap_clean(pr))).lp]_vars

\* ------------------------------------------------ one answer per horizon
\* Slot o held, when the pass began, a tuple whose deleter had committed, and
\* the pass has classified it.
ClassifiedByHorizon(o) ==
    /\ hist.cls[o] \in {HEAPTUPLE_DEAD, HEAPTUPLE_RECENTLY_DEAD}
    /\ HeapTupleSatisfiesVacuumHorizon(hist.pre_tup[o]) = HEAPTUPLE_RECENTLY_DEAD

\* C24: within one pass two tuples with the same dead-after transaction id
\* are classified alike, DEAD or RECENTLY_DEAD, whichever the pass examines
\* first; and a tuple the pass examines twice gets the same answer twice.
SameDeadAfterSameClass ==
    [][/\ pc \in {"scan", "walk", "tail", "interior", "apply", "done"}
          => \A a, b \in Offs :
                /\ ClassifiedByHorizon(a)
                /\ ClassifiedByHorizon(b)
                /\ hist.pre_tup[a].xmax = hist.pre_tup[b].xmax
                => hist.cls[a] = hist.cls[b]
       /\ pc \in {"scan", "walk"} /\ pc' # "idle"
          => \A o \in Offs :
                ClassifiedByHorizon(o) /\ hist'.cls[o] # hist.cls[o]
                => hist'.cls[o] \notin {HEAPTUPLE_DEAD,
                                        HEAPTUPLE_RECENTLY_DEAD}]_vars

\* Two tuples deleted by transaction 3 were left RECENTLY_DEAD, one before and
\* one after the pass began to rely on the limited horizon for a tuple deleted
\* by transaction 2.
SameDeadAfterSameClassWitness ==
    /\ pc = "done"
    /\ pr.old_snap_used
    /\ \E a, b, c \in 1 .. maxoff :
          /\ a < c /\ c < b
          /\ hist.pre_tup[a].xmax = 3 /\ hist.pre_tup[b].xmax = 3
          /\ hist.pre_tup[c].xmax = 2
          /\ hist.cls[a] = HEAPTUPLE_RECENTLY_DEAD
          /\ hist.cls[b] = HEAPTUPLE_RECENTLY_DEAD
          /\ hist.cls[c] = HEAPTUPLE_DEAD

\* --------------------------------------------------- the HOT update counter
\* C25: an update goes into the HOT update counter exactly when the table has
\* an index and the update changes the value of none of the indexes (HOT) or
\* of some but not all of them (partial HOT); an update that changes every
\* index, or one on a table with no index, is not counted.
PartialHotCountedAsHot ==
    pgstat.t_tuples_updated > 0
        => pgstat.counted = (/\ pgstat.nindexes > 0
                             /\ pgstat.changed < pgstat.nindexes)

\* ------------------------------------------- a heap-only tuple under the scan
\* The four plan arrays of the working state.
PlanOf(p) == <<p.redirected, p.redirected_data, p.nowdead, p.nowunused>>

\* C26: when the scan comes to a Normal item whose tuple is heap-only or
\* partial heap-only, that item alone can be planned: it is, and one deletion
\* is counted, exactly when the tuple is DEAD and neither HOT nor partial-HOT
\* updated (unused if heap-only, dead if partial heap-only); otherwise the
\* step plans nothing and counts nothing.
HeapOnlyItemReapedAlone ==
    [][ScanItem /\ IsHeapOnlyRoot(pr.offnum) /\ pr' # pr
        => LET o == pr.offnum
               t == tup[o]
               reap == /\ heap_prune_satisfies_vacuum(t, horizon)
                              = HEAPTUPLE_DEAD
                       /\ ~HeapTupleHeaderIsHotUpdated(t)
                       /\ ~HeapTupleHeaderIsPartialHotUpdated(t)
           IN /\ pc' = "scan"
              /\ pr'.offnum = o + 1
              /\ pr'.redirected = pr.redirected
              /\ pr'.redirected_data = pr.redirected_data
              /\ IF reap
                 THEN /\ pr'.ndeleted = pr.ndeleted + 1
                      /\ IF HeapTupleHeaderIsHeapOnly(t)
                         THEN /\ pr'.nowunused = Append(pr.nowunused, o)
                              /\ pr'.nowdead = pr.nowdead
                         ELSE /\ pr'.nowdead = Append(pr.nowdead, o)
                              /\ pr'.nowunused = pr.nowunused
                 ELSE /\ PlanOf(pr') = PlanOf(pr)
                      /\ pr'.ndeleted = pr.ndeleted]_vars

\* Slot o was planned by the scan itself, not as a member of a chain.
ReapedAlone(o) ==
    \A k \in 1 .. Len(hist.done) : o \notin SeqRange(hist.done[k].chainitems)

\* The scan has reaped a partial heap-only tuple (dead) on its own and has
\* passed a heap-only tuple that was not DEAD.
HeapOnlyItemReapedAloneWitness ==
    /\ pc = "scan"
    /\ \E o \in SeqRange(pr.nowdead) :
          /\ ReapedAlone(o)
          /\ HeapTupleHeaderIsPartialHeapOnly(tup[o])
          /\ hist.cls[o] = HEAPTUPLE_DEAD
    /\ \E o \in 1 .. (pr.offnum - 1) :
          /\ IsHeapOnlyRoot(o)
          /\ o \notin pr.marked
          /\ hist.cls[o] \notin {"none", HEAPTUPLE_DEAD}

\* The tuple that the walk stored last: the last member of the chain that is a
\* tuple and not a redirect line pointer; InvalidOffsetNumber if there is none.
LastTupleOf(items) ==
    LET ks == {k \in 1 .. Len(items) : ItemIdIsNormal(lp[items[k]])}
    IN IF ks = {} THEN InvalidOffsetNumber
       ELSE items[CHOOSE k \in ks : \A j \in ks : j <= k]

\* The slot the walk stands on ends the walk: it was marked by an earlier
\* chain, it is Unused or Dead, or it holds a tuple whose xmin is not the xmax
\* the walk carries along.
WalkEndsAt(o) ==
    \/ o \in pr.marked
    \/ ~ItemIdIsUsed(lp[o])
    \/ ItemIdIsDead(lp[o])
    \/ /\ ItemIdIsNormal(lp[o])
       /\ ch.priorXmax # InvalidTransactionId
       /\ tup[o].xmin # ch.priorXmax

\* C27: every tuple a walk adds to the chain after the first tuple has the
\* xmax of the tuple added before it as its xmin, and a walk that comes to a
\* marked, Unused or Dead slot or to a tuple with another xmin ends there
\* without an error and without adding the slot to the chain.
WalkFollowsXmaxToXmin ==
    [][pc = "walk" /\ ch.offnum \in 1 .. maxoff =>
         /\ ( /\ Len(ch'.chainitems) = Len(ch.chainitems) + 1
              /\ ItemIdIsNormal(lp[ch.offnum])
              /\ LastTupleOf(ch.chainitems) # InvalidOffsetNumber )
            => tup[ch.offnum].xmin = tup[LastTupleOf(ch.chainitems)].xmax
         /\ WalkEndsAt(ch.offnum)
            => /\ pc' = "tail"
               /\ ch'.chainitems = ch.chainitems
               /\ ch' = ch
               /\ pr' = pr]_vars

\* A walk stored two tuples, the second one after the xmin test, and stopped in
\* front of a third tuple whose xmin is not the xmax carried along.
WalkFollowsXmaxToXminWitness ==
    /\ pc = "tail"
    /\ Len(ch.chainitems) = 2
    /\ ItemIdIsNormal(lp[ch.chainitems[1]])
    /\ ItemIdIsNormal(lp[ch.chainitems[2]])
    /\ tup[ch.chainitems[2]].xmin = tup[ch.chainitems[1]].xmax
    /\ ch.offnum \in 1 .. maxoff
    /\ ch.offnum \notin pr.marked
    /\ ch.offnum \notin {ch.chainitems[1], ch.chainitems[2]}
    /\ ItemIdIsNormal(lp[ch.offnum])
    /\ ch.priorXmax # InvalidTransactionId
    /\ tup[ch.offnum].xmin # ch.priorXmax

\* The interior member that the next iteration of the collapse loop handles,
\* and the chain item in front of it.
InteriorItem == ch.chainitems[ch.i + 1]
InteriorPred == ch.chainitems[ch.i]

\* An iteration of the collapse loop is due for a chain whose tail is not dead
\* and whose item in front of the member is a tuple.
InteriorDue ==
    /\ pc = "interior"
    /\ ch.i > 0
    /\ TailLive(ch)
    /\ ItemIdIsNormal(lp[InteriorPred])
    /\ ItemIdIsNormal(lp[InteriorItem])

\* The modified-column bitmap of the member against its predecessor: the
\* interesting columns (all of them, lines 844-847) in which the two differ.
InteriorBitmap ==
    HeapDetermineModifiedColumns(AllAttrs(Natts), tup[InteriorPred],
                                 tup[InteriorItem])

\* C28: an interior member of a chain with a live tail is planned unused, and
\* no bitmap is computed, if no key is established and it is not partial;
\* otherwise it is planned unused if its bitmap against its predecessor is
\* empty or if it is not partial and a key exists, and planned dead if it is
\* partial, a key exists and its bitmap is a subset of the accumulated key
\* bitmap.
InteriorMemberPlan ==
    [][InteriorDue =>
         LET item == InteriorItem
             partial == ch.phot_items[ch.i + 1]
             unused == pr'.nowunused = Append(pr.nowunused, item)
             dead == pr'.nowdead = Append(pr.nowdead, item)
         IN IF ~ch.has_phot /\ ~partial
            THEN /\ unused
                 /\ ch'.interesting_null = ch.interesting_null
                 /\ ch'.interesting_attrs = ch.interesting_attrs
            ELSE /\ InteriorBitmap = {} => unused
                 /\ ~partial /\ ch.has_phot => unused
                 /\ ( /\ partial /\ ch.has_phot
                      /\ InteriorBitmap # {}
                      /\ InteriorBitmap \subseteq ch.modified_attrs )
                    => dead]_vars

\* The modified-column bitmap of the chain item at position j + 1 against the
\* item in front of it, for items that are tuples.
BitmapAt(j) ==
    HeapDetermineModifiedColumns(AllAttrs(Natts), tup[ch.chainitems[j]],
                                 tup[ch.chainitems[j + 1]])

\* The member the next iteration handles is partial with a non-empty bitmap,
\* and no interior member between it and the tail is.
FirstPartialWithBitmap ==
    /\ InteriorDue
    /\ \A j \in 1 .. Len(ch.chainitems) : ItemIdIsNormal(lp[ch.chainitems[j]])
    /\ ch.phot_items[ch.i + 1]
    /\ InteriorBitmap # {}
    /\ \A j \in (ch.i + 1) .. (Len(ch.chainitems) - 2) :
          ~ch.phot_items[j + 1] \/ BitmapAt(j) = {}

\* C29: scanning from the tail toward the root, the first partial interior
\* member with a non-empty bitmap is planned as a key redirect that targets
\* the tail and carries that bitmap as its payload.
FirstKeyCarriesItsBitmap ==
    [][FirstPartialWithBitmap =>
         \E e \in SeqRange(pr'.redirected_data) :
            /\ e.from = InteriorItem
            /\ e.to = ch.lastoff
            /\ DecodeRedirectData(e.data) = InteriorBitmap]_vars

\* C29, amended: the first partial interior member with a non-empty bitmap,
\* met while no key is established, becomes a key by a plain redirect that
\* targets the tail and carries no payload; its bitmap is kept as the
\* accumulated key bitmap of the chain.
FirstKeyIsPlainRedirect ==
    [][FirstPartialWithBitmap /\ ~ch.has_phot =>
         /\ pr'.redirected =
                Append(pr.redirected,
                       [from |-> InteriorItem, to |-> ch.lastoff])
         /\ pr'.redirected_data = pr.redirected_data
         /\ pr'.nowdead = pr.nowdead
         /\ pr'.nowunused = pr.nowunused
         /\ ch'.keyitems = Append(ch.keyitems, InteriorItem)
         /\ ch'.has_phot
         /\ ch'.modified_attrs = InteriorBitmap]_vars

\* A chain of three tuples with a live tail that is not partial and a partial
\* interior member has been collapsed: the member is the only key, planned as
\* a plain redirect to the tail.
FirstKeyIsPlainRedirectWitness ==
    /\ pc = "interior"
    /\ ch.i = 0
    /\ Len(ch.chainitems) = 3
    /\ TailLive(ch)
    /\ ch.phot_items[2]
    /\ ~ch.phot_items[3]
    /\ ch.keyitems = <<ch.chainitems[2]>>
    /\ ch.modified_attrs # {}
    /\ [from |-> ch.chainitems[2], to |-> ch.lastoff] \in SeqRange(pr.redirected)
    /\ \A e \in SeqRange(pr.redirected_data) : e.from # ch.chainitems[2]

\* C30: a partial interior member met after a key exists, whose bitmap is not
\* a subset of the accumulated key bitmap, is planned as a redirect with data
\* that targets the key established before it and whose payload is the
\* accumulated key bitmap as it stood before the member's columns were added.
LaterKeyCarriesKeyBitmap ==
    [][( /\ InteriorDue
         /\ ch.phot_items[ch.i + 1]
         /\ ch.has_phot
         /\ ch.keyitems # << >>
         /\ ~(InteriorBitmap \subseteq ch.modified_attrs) )
       => \E e \in SeqRange(pr'.redirected_data) :
            /\ e.from = InteriorItem
            /\ e.to = ch.keyitems[Len(ch.keyitems)]
            /\ DecodeRedirectData(e.data) = ch.modified_attrs]_vars

\* The collapse loop is about to call GetModifiedColumnsBitmap for the member
\* at position ch.i + 1 (lines 849-857): the cheap path does not apply.
DiffCallDue ==
    /\ pc = "interior"
    /\ ch.i > 0
    /\ ~(ch.chain_dead \/ (~ch.has_phot /\ ~ch.phot_items[ch.i + 1]))

\* The interesting-column set handed to that call (lines 844-847).
DiffInteresting ==
    IF ch.interesting_null THEN AllAttrs(Natts) ELSE ch.interesting_attrs

\* What the call returns when a read of bytes that were never written gives g.
DiffResult(g) ==
    GetModifiedColumnsBitmap(ch.chainitems[ch.i], ch.chainitems[ch.i + 1],
                             ch.phot_items[ch.i + 1], FALSE,
                             DiffInteresting, g).modified

\* The payload the call finds behind the old line pointer.
DiffPayload(g) ==
    DecodeRedirectData(ItemIdGetRedirectHeader(lp[ch.chainitems[ch.i]], g))

\* Reads that the page state of the call allows.
DiffGarbage ==
    {g \in Garbage : ~ItemIdIsNormal(lp[ch.chainitems[ch.i]]) \/ g = NoGarbage}

\* C31: the bitmap GetModifiedColumnsBitmap returns is a subset of the
\* interesting-column set it is handed, is empty when that set is empty, and
\* is the decoded payload intersected with the interesting set when the old
\* slot is a key redirect.
DiffIsPayloadOfKeyRedirect ==
    DiffCallDue =>
        \A g \in DiffGarbage :
            /\ DiffResult(g) \subseteq DiffInteresting
            /\ DiffInteresting = {} => DiffResult(g) = {}
            /\ ItemIdIsPartialHotRedirected(lp[ch.chainitems[ch.i]], g)
                 => DiffResult(g) = DiffPayload(g) \cap DiffInteresting

\* The slots a plan turns into redirects with data.
DataSlots(p) == {p.redirected_data[k].from : k \in 1 .. Len(p.redirected_data)}

\* The slots a plan turns into plain redirects, dead or unused items.
PlainSlots(p) ==
    {p.redirected[k].from : k \in 1 .. Len(p.redirected)}
    \cup SeqRange(p.nowdead) \cup SeqRange(p.nowunused)

\* C32: every slot that apply turns into a redirect with data holds tuple
\* storage (is LP_NORMAL) when the plan is applied, so that afterwards its
\* offset field holds the redirect target and its length field the non-zero
\* page offset of the storage the payload was written to; the plain redirects
\* and the dead and unused items that apply writes have length 0.
DataRedirectTakesTupleStorage ==
    [][pc = "apply" /\ ~PlanIsEmpty(pr) =>
         /\ \A k \in 1 .. Len(pr.redirected_data) :
               LET e == pr.redirected_data[k]
               IN /\ ItemIdIsNormal(lp[e.from])
                  /\ e.from \notin SeqRange(pr.nowdead) \cup SeqRange(pr.nowunused)
                       => /\ ItemIdIsRedirected(lp'[e.from])
                          /\ ItemIdGetRedirect(lp'[e.from]) = e.to
                          /\ lp'[e.from].len # 0
                          /\ lp'[e.from].len = StorageOff(e.from)
                          /\ pay'[e.from] = e.data
         /\ \A o \in PlainSlots(pr) \ DataSlots(pr) : lp'[o].len = 0]_vars

\* ------------------------------------------- raising the old-snapshot threshold
\* The tuple in slot o is found removable only by the limited horizon: its
\* deleter committed and is not behind the horizon of the visibility test.
DeadByLimitedHorizon(o) ==
    /\ ItemIdIsNormal(lp[o])
    /\ HeapTupleSatisfiesVacuumHorizon(tup[o]) = HEAPTUPLE_RECENTLY_DEAD
    /\ ~GlobalVisTestIsRemovableXid(horizon, tup[o].xmax)

\* C33: within one pass the old-snapshot threshold is raised at most once and
\* before the first tuple is classified DEAD on the basis of the limited
\* horizon: old_snap_used goes from false to true in the step that raises it,
\* never goes back during the pass, and a step that classifies a tuple DEAD by
\* the limited horizon leaves old_snap_used set and the tuple's deleter behind
\* old_snap_xmin.
ThresholdRaisedOnceBeforeUse ==
    [][/\ pr.old_snap_used /\ pc' # "idle" => pr'.old_snap_used
       /\ pr.old_snap_used /\ pc' # "idle"
            => pr'.old_snap_xmin = pr.old_snap_xmin
       /\ pc \in {"scan", "walk"}
            => \A o \in 1 .. maxoff :
                  /\ DeadByLimitedHorizon(o)
                  /\ hist'.cls[o] = HEAPTUPLE_DEAD
                  /\ hist'.cls[o] # hist.cls[o]
                  => /\ pr'.old_snap_used
                     /\ pr'.old_snap_xmin # InvalidTransactionId
                     /\ tup[o].xmax < pr'.old_snap_xmin]_vars

\* A pass has classified two tuples DEAD by the limited horizon, the second
\* one when old_snap_used was set already.
ThresholdRaisedOnceBeforeUseWitness ==
    /\ pc = "done"
    /\ pr.old_snap_used
    /\ \E a, b \in 1 .. maxoff :
          /\ a # b
          /\ hist.cls[a] = HEAPTUPLE_DEAD
          /\ hist.cls[b] = HEAPTUPLE_DEAD
          /\ ~GlobalVisTestIsRemovableXid(horizon, hist.pre_tup[a].xmax)
          /\ ~GlobalVisTestIsRemovableXid(horizon, hist.pre_tup[b].xmax)
          /\ hist.pre_tup[a].xmax < pr.old_snap_xmin
          /\ hist.pre_tup[b].xmax < pr.old_snap_xmin

\* C34: heap_page_prune_opt neither tries to lock nor changes the page when
\* recovery is in progress, when the page has no prune hint, or when the hint
\* is not removable under the horizon and no old-snapshot limit lies beyond
\* it; and once it has the lock it starts a pass only if the page is full or
\* short of free space when looked at again under the lock.
OptPrunesOnlyCandidates ==
    [][/\ ( /\ pc = "idle" /\ buf.pc = "out" /\ buf' # buf
            /\ buf'.lock = buf.lock
            /\ \/ buf'.recovery
               \/ pd_prune_xid = InvalidTransactionId
               \/ /\ ~(pd_prune_xid < buf'.vis)
                  /\ \/ buf'.limited_xmin = InvalidTransactionId
                     \/ ~(pd_prune_xid < buf'.limited_xmin) )
          => /\ buf'.pc = "out"
             /\ buf'.taken = 0
             /\ UNCHANGED page
       /\ (pc = "idle" /\ pc' # "idle")
          => /\ buf.pc = "recheck"
             /\ buf.lock = "self"
             /\ pd_full \/ buf'.low
       /\ (buf.pc = "recheck" /\ ~pd_full /\ ~buf'.low /\ buf'.pc # "recheck")
          => /\ pc' = "idle"
             /\ UNCHANGED page]_vars

\* A call has returned at once because the hint was not removable and no
\* limit lay beyond it, and an earlier call has left a pruned page behind.
OptPrunesOnlyCandidatesWitness ==
    /\ buf.pc = "out"
    /\ pc = "idle"
    /\ ~buf.recovery
    /\ pd_prune_xid # InvalidTransactionId
    /\ buf.vis # 0
    /\ ~(pd_prune_xid < buf.vis)
    /\ buf.limited_xmin = InvalidTransactionId
    /\ buf.taken = 0
    /\ \E o \in 1 .. maxoff : ItemIdIsDead(lp[o]) \/ ItemIdIsRedirected(lp[o])

\* Slot o held, when the pass began, a redirect that an earlier pass made of a
\* chain member: it carries a payload or is the target of another redirect.
PreKeyRedirect(o) ==
    /\ ItemIdIsRedirected(hist.pre_lp[o])
    /\ \/ hist.pre_lp[o].len # 0
       \/ \E q \in 1 .. maxoff :
             /\ ItemIdIsRedirected(hist.pre_lp[q])
             /\ ItemIdGetRedirect(hist.pre_lp[q]) = o

\* Index entries may point at slot o: it held a partial heap-only version whose
\* update changed an indexed column, or a key redirect.
IndexMayReference(o) ==
    \/ /\ ItemIdIsNormal(hist.pre_lp[o])
       /\ hist.pre_tup[o].partial_heap_only
       /\ \E a \in 1 .. maxoff :
             PreNext(a, o) /\ PreChanged(a, o) \cap IndexedCols # {}
    \/ PreKeyRedirect(o)

\* C35: whatever updates and passes went before, a slot that index entries
\* may reference is never planned unused; it is planned as a redirect, as a
\* redirect with data or dead.
IndexedSlotNeverUnused ==
    InPass => \A o \in SeqRange(pr.nowunused) : ~IndexMayReference(o)

\* Line pointer b is line pointer a with its slot numbers mirrored.
MirrorsItemId(a, b) ==
    /\ b.flags = a.flags
    /\ ItemIdIsRedirected(a) => ItemIdGetRedirect(b) = Mirror(ItemIdGetRedirect(a))

WalkAndRootsAgree ==
    pc \in {"scan", "walk", "tail", "interior", "apply"} =>
        \A k \in 1 .. Len(hist.done) :
            LET c == hist.done[k]
            IN \A m \in SeqRange(c.chainitems) :
                  ItemIdIsNormal(lp[m]) =>
                      heap_get_root_tuples[m] = c.rootoffnum

\* C38: whenever the collapse loop asks for the bitmap of a member against its
\* predecessor, the two slots go together: if the predecessor is a tuple so is
\* the member, and if the predecessor is not a tuple and the member is partial
\* the predecessor is a redirect that carries a payload (the two Asserts of
\* GetModifiedColumnsBitmap hold), in every page state that updates and passes
\* lead to.
DiffSlotKindsConsistent ==
    DiffCallDue =>
        LET old == lp[ch.chainitems[ch.i]]
            new == lp[ch.chainitems[ch.i + 1]]
        IN /\ ItemIdIsNormal(old) => ItemIdIsNormal(new)
           /\ ~ItemIdIsNormal(old) /\ ch.phot_items[ch.i + 1]
                => \A g \in DiffGarbage : ItemIdIsPartialHotRedirected(old, g)

\* C39: whenever the walk meets a redirect that is not the slot it started
\* from, it has stored at least two members before (nchain >= 2), so that
\* chainitems[nchain - 2], read to set the redirect's flag, lies inside the
\* array.
RedirectReadInsideArray ==
    ( /\ pc = "walk"
      /\ ch.offnum \in 1 .. maxoff
      /\ ch.offnum \notin pr.marked
      /\ ItemIdIsRedirected(lp[ch.offnum])
      /\ ch.offnum # ch.rootoffnum )
    => Len(ch.chainitems) >= 2

\* The payload byte (counted from 0, behind the header) that line 1351 writes
\* for bitmapset member m.
StoredByte(m) == (m + FirstLowInvalidHeapAttributeNumber) \div 8

\* C40: for every natts >= 1 and every bitmap over the columns 1 .. natts,
\* each bit that StoreModifiedColumnsBitmap sets lies inside the payload it
\* allocated, the header and (natts + 7) / 8 bytes, also for column natts when
\* natts is a multiple of 8.
StoredBitsInsidePayload ==
    codec.pc = "stored" =>
        \A m \in codec.data :
            /\ StoredByte(m) < NBytes(codec.natts)
            /\ SizeofRedirectHeaderData + StoredByte(m) < codec.payload.rlp_len

====
